---------------------------- MODULE Spec2Model ----------------------------
(***************************************************************************)
(* A model of the claw version-control engine: the object graph, the       *)
(* object store and refs of a peer, the sync server's handlers             *)
(* (claw-sync/src/server.rs), the negotiation walks                        *)
(* (claw-sync/src/negotiation.rs, ancestry.rs, partial_clone.rs) and the   *)
(* sync commands of the command line (claw-cli/src/commands/sync.rs).      *)
(*                                                                         *)
(* Object ids are content hashes: an id determines its object.  The model  *)
(* therefore fixes one universe of objects (ObjIds) and lets every store   *)
(* hold a subset of it.  Ids are numbered so that the numeric order stands *)
(* for the order of the ids' hex form; it is unrelated to the dependency   *)
(* order, as a hash is.                                                    *)
(***************************************************************************)
EXTENDS Integers, Sequences, FiniteSets, TLC

\* ------------------------------------------------------------------ bounds

\* Updates in one update_refs batch.
MaxBatch == 2
\* Requests a run of the single-client specification issues.
MaxCalls == 1
\* Requests a run of the two-client specification issues.
MaxConcCalls == 2
\* Chunks one push stream has accepted.
MaxChunks == 2
\* Push streams a run opens.
MaxPushCalls == 1
\* Fetch streams a run opens.
MaxFetchCalls == 1
\* Requests one sync command of the command line issues.
MaxSyncCalls == 2

\* ------------------------------------------------------- the object universe

\* Option::None of an ObjectId.
None == 0

R2 == 1
B1 == 2
T1 == 3
R1 == 4
P1 == 5
R3 == 6
P2 == 7

\* The id of the revision a merge builds.
RM == 8

\* Further revisions of a longer history: R4 follows R2, R5 merges R1 and R4,
\* R6 follows R2 on another branch.
R4 == RM + 1
R5 == RM + 2
R6 == RM + 3

ObjIds == {R2, B1, T1, R1, P1, R3, P2}
RevIds == {R1, R2, R3}
GraphIds == RevIds \cup {R4, R5, R6}
OptIds == ObjIds \cup {None}

\* Object::type_tag
type_tag(id) ==
  CASE id \in {R1, R2, R3, R4, R5, R6} -> "revision"
    [] id \in {P1, P2} -> "patch"
    [] id = T1 -> "tree"
    [] OTHER -> "blob"

\* Revision.parents, in the revision's order.
parents(id) ==
  CASE id = R2 -> <<R1>>
    [] id = R3 -> <<R1>>
    [] id = R4 -> <<R2>>
    [] id = R5 -> <<R1, R4>>
    [] id = R6 -> <<R2>>
    [] OTHER -> <<>>

\* Revision.created_at_ms
created_at_ms(id) ==
  CASE id = R1 -> 10
    [] id = R2 -> 20
    [] id = R3 -> 30
    [] OTHER -> 0

\* Patch.target_path, a string as the sequence of its characters.
target_path(id) ==
  CASE id = P1 -> <<"s", "/", "a">>
    [] id = P2 -> <<"d", "/", "b">>
    [] OTHER -> <<>>

\* Patch.codec_id
codec_id(id) ==
  CASE id = P1 -> "text/line"
    [] id = P2 -> "json/tree"
    [] OTHER -> ""

\* The ids an object names besides a revision's parents: a revision's patches
\* and tree, a tree's entries, a patch's base_object.
other_refs(id) ==
  CASE id = R1 -> {T1}
    [] id = R2 -> {P1, T1}
    [] id = R3 -> {P2}
    [] id = T1 -> {B1}
    [] id = P1 -> {B1}
    [] id = P2 -> {B1}
    [] OTHER -> {}

Range(s) == {s[i] : i \in 1..Len(s)}

RECURSIVE SortedSeq(_)
\* A set of ids as the sequence sorted by id (sort_by_key(to_hex)).
SortedSeq(S) ==
  IF S = {} THEN <<>>
  ELSE LET m == CHOOSE x \in S : \A y \in S : x <= y
       IN <<m>> \o SortedSeq(S \ {m})

\* Object::dependencies: the de-duplicated referenced ids, sorted by hex form.
dependencies(id) == SortedSeq(Range(parents(id)) \cup other_refs(id))

\* ------------------------------------------------------------ ancestry walk

RECURSIVE is_ancestor_walk(_, _, _, _)
\* The loop of is_ancestor: queue.pop() takes the LAST element.
is_ancestor_walk(store, potential_ancestor, queue, visited) ==
  IF queue = <<>> THEN FALSE
  ELSE LET id == queue[Len(queue)]
           rest == SubSeq(queue, 1, Len(queue) - 1)
       IN IF id = potential_ancestor THEN TRUE
          ELSE IF id \in visited
            THEN is_ancestor_walk(store, potential_ancestor, rest, visited)
            ELSE is_ancestor_walk(
                   store, potential_ancestor,
                   IF id \in store /\ type_tag(id) = "revision"
                     THEN rest \o parents(id) ELSE rest,
                   visited \cup {id})

\* A mutant of is_ancestor: the walk also reports an ancestor's other
\* descendants (the arguments taken the wrong way round as well).
is_ancestor_either(store, potential_ancestor, descendant) ==
  \/ potential_ancestor = descendant
  \/ is_ancestor_walk(store, potential_ancestor, <<descendant>>, {})
  \/ is_ancestor_walk(store, descendant, <<potential_ancestor>>, {})
  \/ \E r \in RevIds :
       /\ is_ancestor_walk(store, r, <<descendant>>, {})
       /\ is_ancestor_walk(store, r, <<potential_ancestor>>, {})

\* A mutant of is_ancestor: the walk stops at the parents of the descendant.
is_ancestor_parent(store, potential_ancestor, descendant) ==
  \/ potential_ancestor = descendant
  \/ descendant \in store /\ potential_ancestor \in Range(parents(descendant))

is_ancestor(store, potential_ancestor, descendant) ==
  IF potential_ancestor = descendant THEN TRUE
  ELSE is_ancestor_walk(store, potential_ancestor, <<descendant>>, {})


\* ------------------------------------------------------------------- state

RefNames == {"heads/main", "heads/dev"}
Clients == {1, 2}

VARIABLES
  srvObjects,   \* the server store's loose objects (ids present)
  srvRefs,      \* the server's refs: name -> id, None when the file is absent
  srvReflog,    \* the server's reflogs: name -> lines <<old, new>>
  srvLock,      \* the tokio RwLock around the server's store
  task,         \* per client: the server handler serving its request
  calls,        \* requests the clients may still issue
  chan,         \* per client: the chunks its fetch stream has been sent, in order
  rxOpen,       \* per client: the receiving end of its fetch stream still exists
  pushLog,      \* what push_objects stored: the id sent, the object, its referents' presence
  locObjects,   \* the local store's loose objects
  locRefs,      \* the local refs
  locReflog,    \* the local reflogs
  locHead,      \* the local HEAD: the ref name it points at, "" before it is written
  cli,          \* the sync command the command line runs
  cdc,          \* the codec call under way: its inputs and what it returned so far
  mrg,          \* the repository integrate works on, and the merge under way
  gr,           \* a call of a function on the revision graph: its inputs and result
  evt,          \* the event subscription of a client and its polling task
  cap,          \* a capsule, as built, altered and verified
  ws            \* a workstream: its change stack and what its requests returned

srvVars == <<srvObjects, srvRefs, srvReflog, srvLock>>
netVars == <<chan, rxOpen>>
locVars == <<locObjects, locRefs, locReflog, locHead, cli, cdc, mrg>>
subVars == <<gr, evt, cap, ws>>
vars == <<srvObjects, srvRefs, srvReflog, srvLock, task, calls, chan, rxOpen,
          pushLog, locObjects, locRefs, locReflog, locHead, cli, cdc, mrg, gr, evt, cap, ws>>

NoGraphCall == [pc |-> "none"]
\* No call outside the sync and merge commands is under way.
NoSubscription == [pc |-> "none"]
NoCapsule == [pc |-> "none"]
NoWorkstream == [pc |-> "none"]
IdleSub ==
  gr = NoGraphCall /\ evt = NoSubscription /\ cap = NoCapsule /\ ws = NoWorkstream

NoResp == [success |-> FALSE, kind |-> "", index |-> 0, expected |-> None, actual |-> None]
IdleTask == [pc |-> "idle", req |-> <<>>, pre |-> <<>>, post |-> <<>>,
             preLog |-> <<>>, postLog |-> <<>>, resp |-> NoResp, conc |-> FALSE,
             accepted |-> <<>>, todo |-> {}, have_set |-> {}]

\* No sync command has started.  Of a running command the record holds the
\* position (pc), the arguments, the locals of `run`, the chunks read from the
\* fetch stream (rx), and, for the claims, the refs of both sides when the
\* command started and the position it was cancelled at.
NoCli ==
  [pc |-> "none", cmd |-> "", ref_name |-> "", force |-> FALSE,
   local_id |-> None, remote_id |-> None, remote_old |-> None,
   local |-> None, old |-> None, round |-> 0, accepted_ids |-> {},
   remote_refs |-> <<>>, want |-> <<>>, have |-> <<>>, push_ids |-> {},
   rx |-> 0, pushed |-> FALSE, at |-> "", locRefs0 |-> <<>>, srvRefs0 |-> <<>>]

UnlockedStore == [writer |-> 0, readers |-> {}]

\* A mutant of write_free: the handler does not wait for the store.
write_never_waits(lock) == TRUE

\* RwLock::write().await completes: nobody holds the lock.
write_free(lock) == lock.writer = 0 /\ lock.readers = {}

\* RwLock::read().await completes: no writer holds the lock.
read_free(lock) == lock.writer = 0

\* ------------------------------------------------------------- update_refs

\* A RefUpdate message: name, old_target, new_target, force.  The clients of
\* this repository always send a new_target (client.rs:178).
RefUpdates ==
  [name : RefNames, old : {None, R1, R2}, new : {R1, R2, R3}, force : BOOLEAN]

Batches(n) == UNION {[1..k -> RefUpdates] : k \in 1..n}

\* A ref name as the components of its path under refs/.
ref_path(name) ==
  CASE name = "heads/main" -> <<"heads", "main">>
    [] name = "heads/dev" -> <<"heads", "dev">>
    [] name = "heads/main/x" -> <<"heads", "main", "x">>
    [] OTHER -> <<name>>

\* Path p is a proper prefix of path q.
proper_prefix(p, q) == Len(p) < Len(q) /\ SubSeq(q, 1, Len(p)) = p

\* The path of `name` is a directory: some ref file lies below it.
is_dir(refs, name) ==
  \E n \in DOMAIN refs : refs[n] # None /\ proper_prefix(ref_path(name), ref_path(n))

\* refs::read_ref fails: path.exists() holds of a directory, and
\* read_to_string of a directory is an error.  (Below a ref file the path does
\* not exist, and the ref reads as absent.)
read_ref_fails(refs, name) == is_dir(refs, name)

\* refs::write_ref fails: create_dir_all of the parent meets a ref file on the
\* way, or fs::write meets a directory.
write_ref_fails(refs, name) ==
  \/ is_dir(refs, name)
  \/ \E n \in DOMAIN refs : refs[n] # None /\ proper_prefix(ref_path(n), ref_path(name))

\* refs::write_ref by way of ClawStore::set_ref: the ref file is overwritten.
write_ref(refs, name, target) == [refs EXCEPT ![name] = target]

\* A mutant of cas_match: an update without an expected old value matches an
\* existing ref whether forced or not.
cas_match_none_matches_any(expected_old, current, force) ==
  \/ expected_old = None
  \/ expected_old # None /\ current # None /\ expected_old = current

\* The match on (expected_old, current) in pass 1 of update_refs: creation,
\* equal values, or a forced update without an expected old value.
cas_match(expected_old, current, force) ==
  \/ expected_old = None /\ current = None
  \/ expected_old # None /\ current # None /\ expected_old = current
  \/ expected_old = None /\ current # None /\ force

\* Pass 1 of update_refs for one update: the match on (expected_old, current),
\* then the fast-forward check against the current value.
check_update(store, refs, update) ==
  LET current == refs[update.name]
      expected_old == update.old
  IN IF read_ref_fails(refs, update.name)
       THEN [success |-> FALSE, kind |-> "internal", index |-> 0,
             expected |-> None, actual |-> None]
     ELSE IF ~cas_match(expected_old, current, update.force)
       THEN [success |-> FALSE, kind |-> "cas", index |-> 0,
             expected |-> expected_old, actual |-> current]
     ELSE IF /\ update.new # None
             /\ current # None
             /\ ~update.force
             /\ ~is_ancestor(store, current, update.new)
       THEN [success |-> FALSE, kind |-> "nonff", index |-> 0,
             expected |-> None, actual |-> None]
     ELSE [success |-> TRUE, kind |-> "ok", index |-> 0,
           expected |-> None, actual |-> None]

RECURSIVE verify_from(_, _, _, _)
verify_from(store, refs, updates, i) ==
  IF i > Len(updates)
    THEN [success |-> TRUE, kind |-> "ok", index |-> 0, expected |-> None, actual |-> None]
  ELSE LET r == check_update(store, refs, updates[i])
       IN IF r.success THEN verify_from(store, refs, updates, i + 1)
          ELSE [r EXCEPT !.index = i]

\* A mutant of verify_updates: only the first update of the batch is verified.
verify_first_only(store, refs, updates) ==
  LET r == check_update(store, refs, updates[1])
  IN IF r.success THEN r ELSE [r EXCEPT !.index = 1]

\* Pass 1 of update_refs: the first update that fails decides the response.
verify_updates(store, refs, updates) == verify_from(store, refs, updates, 1)

RECURSIVE apply_from(_, _, _)
\* The loop of pass 2 from update i on: the refs it leaves, which are those
\* written before the first write that fails.
apply_from(refs, updates, i) ==
  IF i > Len(updates) THEN refs
  ELSE IF updates[i].new = None THEN apply_from(refs, updates, i + 1)
  ELSE IF write_ref_fails(refs, updates[i].name) THEN refs
  ELSE apply_from(write_ref(refs, updates[i].name, updates[i].new), updates, i + 1)

RECURSIVE apply_fails_from(_, _, _)
\* The loop of pass 2 from update i on meets a write that fails.
apply_fails_from(refs, updates, i) ==
  IF i > Len(updates) THEN FALSE
  ELSE IF updates[i].new = None THEN apply_fails_from(refs, updates, i + 1)
  ELSE IF write_ref_fails(refs, updates[i].name) THEN TRUE
  ELSE apply_fails_from(write_ref(refs, updates[i].name, updates[i].new), updates, i + 1)

\* Pass 2 of update_refs: every update with a new target is written, in order,
\* up to the first write that fails.
apply_updates(refs, updates) == apply_from(refs, updates, 1)

\* Pass 2 of update_refs returns an error: set_ref failed.
apply_fails(refs, updates) == apply_fails_from(refs, updates, 1)

InFlight(c) == task[c].pc \in {"ur_wait", "ur_verify", "ur_apply"}

\* A client sends an UpdateRefsRequest, one of `requests`; the handler starts
\* and awaits the lock.
UpdateRefsCall(c, requests) ==
  /\ task[c].pc = "idle"
  /\ calls > 0
  /\ calls' = calls - 1
  /\ \E updates \in requests :
       LET others == {d \in Clients \ {c} : InFlight(d)}
       IN task' = [d \in Clients |->
                     IF d = c THEN [IdleTask EXCEPT !.pc = "ur_wait", !.req = updates,
                                                    !.conc = (others # {})]
                     ELSE IF d \in others THEN [task[d] EXCEPT !.conc = TRUE]
                     ELSE task[d]]
  /\ UNCHANGED <<srvVars, netVars, pushLog, locVars, subVars>>

\* self.store.write().await
UpdateRefsLock(c) ==
  /\ task[c].pc = "ur_wait"
  /\ write_free(srvLock)
  /\ srvLock' = [srvLock EXCEPT !.writer = c]
  /\ task' = [task EXCEPT ![c].pc = "ur_verify", ![c].pre = srvRefs,
                          ![c].preLog = srvReflog]
  /\ UNCHANGED <<srvObjects, srvRefs, srvReflog, calls, netVars, pushLog, locVars, subVars>>

\* Pass 1; a failed check returns the failure response and drops the lock.
UpdateRefsVerify(c) ==
  /\ task[c].pc = "ur_verify"
  /\ LET r == verify_updates(srvObjects, srvRefs, task[c].req)
     IN IF r.success
          THEN /\ task' = [task EXCEPT ![c].pc = "ur_apply"]
               /\ UNCHANGED srvLock
          ELSE /\ task' = [task EXCEPT ![c].pc = "done", ![c].resp = r,
                                       ![c].post = srvRefs, ![c].postLog = srvReflog]
               /\ srvLock' = [srvLock EXCEPT !.writer = IF @ = c THEN 0 ELSE @]
  /\ UNCHANGED <<srvObjects, srvRefs, srvReflog, calls, netVars, pushLog, locVars, subVars>>

\* Pass 2, the response (an error when a write failed), and the lock dropped.
UpdateRefsApply(c) ==
  /\ task[c].pc = "ur_apply"
  /\ srvRefs' = apply_updates(srvRefs, task[c].req)
  /\ task' = [task EXCEPT ![c].pc = "done",
                          ![c].resp = IF apply_fails(srvRefs, task[c].req)
                                        THEN [NoResp EXCEPT !.kind = "internal"]
                                        ELSE [NoResp EXCEPT !.success = TRUE, !.kind = "ok"],
                          ![c].post = srvRefs', ![c].postLog = srvReflog]
  /\ srvLock' = [srvLock EXCEPT !.writer = IF @ = c THEN 0 ELSE @]
  /\ UNCHANGED <<srvObjects, srvReflog, calls, netVars, pushLog, locVars, subVars>>

\* The client has read the response.
Return(c) ==
  /\ task[c].pc = "done"
  /\ task' = [task EXCEPT ![c] = IdleTask]
  /\ UNCHANGED <<srvVars, calls, netVars, pushLog, locVars, subVars>>

\* The handler serving client c has answered.
Done(c) == task[c].pc = "done"

\* No stream is open, nothing was pushed.
QuietNet ==
  /\ chan = [c \in Clients |-> <<>>]
  /\ rxOpen = [c \in Clients |-> FALSE]
  /\ pushLog = {}

\* No codec call and no merge is under way.
NoCodecCall == [pc |-> "none"]
NoMerge == [pc |-> "none", cmd |-> ""]

\* No command runs on the local repository.
NoLocal ==
  /\ locObjects = {}
  /\ locRefs = [n \in RefNames |-> None]
  /\ locReflog = [n \in RefNames |-> <<>>]
  /\ locHead = ""
  /\ cli = NoCli
  /\ cdc = NoCodecCall
  /\ mrg = NoMerge
  /\ IdleSub

\* The stores a server starts with: every object, or R2 not yet pushed.
InitialStores == {ObjIds, ObjIds \ {R2}}

InitRefs ==
  /\ srvObjects \in InitialStores
  /\ srvRefs \in [RefNames -> {None, R1, R2}]
  /\ srvReflog = [n \in RefNames |-> <<>>]
  /\ srvLock = UnlockedStore
  /\ task = [c \in Clients |-> IdleTask]
  /\ calls = MaxCalls
  /\ QuietNet
  /\ NoLocal

Init == InitRefs

\* One client at a time, batches of up to MaxBatch updates.
Next ==
  \/ UpdateRefsCall(1, Batches(MaxBatch))
  \/ UpdateRefsLock(1)
  \/ UpdateRefsVerify(1)
  \/ UpdateRefsApply(1)
  \/ Return(1)

Spec == Init /\ [][Next]_vars

\* ------------------------------------------- two clients, one update each

\* The requests the push command sends: one update per request.
SingleUpdates == {<<u>> : u \in RefUpdates}

InitConc ==
  /\ srvObjects \in InitialStores
  /\ srvRefs \in [RefNames -> {None, R1, R2}]
  /\ srvReflog = [n \in RefNames |-> <<>>]
  /\ srvLock = UnlockedStore
  /\ task = [c \in Clients |-> IdleTask]
  /\ calls = MaxConcCalls
  /\ QuietNet
  /\ NoLocal

NextConc ==
  \E c \in Clients :
    \/ UpdateRefsCall(c, SingleUpdates)
    \/ UpdateRefsLock(c)
    \/ UpdateRefsVerify(c)
    \/ UpdateRefsApply(c)
    \/ Return(c)

SpecConc == InitConc /\ [][NextConc]_vars

\* --------------------------------------------- ref names that share a path

\* A ref and a ref below it: refs/heads/main is a file or a directory.
NestedRefNames == {"heads/main", "heads/main/x"}

NestedUpdates ==
  [name : NestedRefNames, old : {None, R1}, new : {R1, R2}, force : BOOLEAN]

NestedBatches == UNION {[1..k -> NestedUpdates] : k \in 1..MaxBatch}

\* The refs a file system can hold: no ref file below another ref file.
InitNested ==
  /\ srvObjects = ObjIds
  /\ srvRefs \in {refs \in [NestedRefNames -> {None, R1}] :
                    \A n \in NestedRefNames : refs[n] # None => ~is_dir(refs, n)}
  /\ srvReflog = [n \in NestedRefNames |-> <<>>]
  /\ srvLock = UnlockedStore
  /\ task = [c \in Clients |-> IdleTask]
  /\ calls = MaxCalls
  /\ QuietNet
  /\ NoLocal

NextNested ==
  \/ UpdateRefsCall(1, NestedBatches)
  \/ UpdateRefsLock(1)
  \/ UpdateRefsVerify(1)
  \/ UpdateRefsApply(1)
  \/ Return(1)

SpecNested == InitNested /\ [][NextNested]_vars

\* C11: a request that ended in an error or a failure response left every ref
\* as it was when the handler took the store.
C11_ErrorLeavesRefsUnchanged ==
  \A c \in Clients :
    (Done(c) /\ ~task[c].resp.success) => task[c].post = task[c].pre

\* ------------------------------------------------------------ push_objects

\* The objects the pushing clients of the model hold.
PushIds == {B1, T1, R1}

\* An ObjectChunk of a push stream that is not the end marker: the id sent with
\* it (None when the message carries none), whether its data is an intact COF
\* frame of a well-formed payload, and the object the data encodes.
PushChunks == [id : PushIds \cup {None}, obj : PushIds, frame_ok : BOOLEAN]

\* loose::write_loose_object: writes the file unless it exists.
write_loose_object(store, id) == store \cup {id}

\* ClawStore::store_object: the id is the hash of the object's own content.
store_object(store, obj) == write_loose_object(store, obj)

\* A client opens a push stream; the handler starts and awaits the lock.
PushCall(c) ==
  /\ task[c].pc = "idle"
  /\ calls > 0
  /\ calls' = calls - 1
  /\ task' = [task EXCEPT ![c] = [IdleTask EXCEPT !.pc = "po_wait"]]
  /\ UNCHANGED <<srvVars, netVars, pushLog, locVars, subVars>>

\* self.store.write().await, held for the whole stream.
PushLock(c) ==
  /\ task[c].pc = "po_wait"
  /\ write_free(srvLock)
  /\ srvLock' = [srvLock EXCEPT !.writer = c]
  /\ task' = [task EXCEPT ![c].pc = "po_recv"]
  /\ UNCHANGED <<srvObjects, srvRefs, srvReflog, calls, netVars, pushLog, locVars, subVars>>

\* stream.message() yields a chunk, one of `chunks`, that is not the end
\* marker: a chunk without id is passed over, a chunk that does not decode ends the call with an error,
\* any other chunk is stored under the hash of its content and accepted.
PushRecv(c, chunks) ==
  /\ task[c].pc = "po_recv"
  /\ \E chunk \in chunks :
       IF chunk.id = None
         THEN UNCHANGED <<srvObjects, srvLock, task, pushLog, subVars>>
       ELSE IF ~chunk.frame_ok
         THEN /\ task' = [task EXCEPT ![c].pc = "done",
                            ![c].resp = [NoResp EXCEPT !.kind = "internal"]]
              /\ srvLock' = [srvLock EXCEPT !.writer = IF @ = c THEN 0 ELSE @]
              /\ UNCHANGED <<srvObjects, pushLog, subVars>>
       ELSE /\ srvObjects' = store_object(srvObjects, chunk.obj)
            /\ task' = [task EXCEPT ![c].accepted = Append(@, chunk.obj)]
            /\ pushLog' = pushLog \cup
                 {[id |-> chunk.id, obj |-> chunk.obj, frame_ok |-> chunk.frame_ok,
                   referents |-> Range(dependencies(chunk.obj)) \subseteq srvObjects]}
            /\ UNCHANGED srvLock
  /\ UNCHANGED <<srvRefs, srvReflog, calls, netVars, locVars, subVars>>

\* The end marker arrives or the stream ends: the accepted ids are returned.
PushFinish(c) ==
  /\ task[c].pc = "po_recv"
  /\ task' = [task EXCEPT ![c].pc = "done",
                          ![c].resp = [NoResp EXCEPT !.success = TRUE, !.kind = "ok"]]
  /\ srvLock' = [srvLock EXCEPT !.writer = IF @ = c THEN 0 ELSE @]
  /\ UNCHANGED <<srvObjects, srvRefs, srvReflog, calls, netVars, pushLog, locVars, subVars>>

\* A stream of arbitrary chunks, of which at most MaxChunks are accepted.
PushRecvAny(c) ==
  /\ Len(task[c].accepted) < MaxChunks
  /\ PushRecv(c, PushChunks)

InitPush ==
  /\ srvObjects \in {{}, {B1}}
  /\ srvRefs = [n \in RefNames |-> None]
  /\ srvReflog = [n \in RefNames |-> <<>>]
  /\ srvLock = UnlockedStore
  /\ task = [c \in Clients |-> IdleTask]
  /\ calls = MaxPushCalls
  /\ QuietNet
  /\ NoLocal

NextPush ==
  \E c \in Clients :
    \/ PushCall(c)
    \/ PushLock(c)
    \/ PushRecvAny(c)
    \/ PushFinish(c)
    \/ Return(c)

SpecPush == InitPush /\ [][NextPush]_vars

\* C6: every object push_objects stored arrived in an intact frame, under an
\* id equal to the hash of its content, with every object it references
\* already in the store.
C6_StoredOnlyIfValidated ==
  \A e \in pushLog : e.frame_ok /\ e.id = e.obj /\ e.referents

\* ----------------------------------------------------------- fetch_objects

RECURSIVE reachable_walk(_, _, _)
\* The loop of find_reachable_objects: queue.pop() takes the LAST element, an
\* id is marked visited whether or not the store holds its object, and only an
\* object that loads has its dependencies queued.
reachable_walk(store, queue, visited) ==
  IF queue = <<>> THEN visited
  ELSE LET id == queue[Len(queue)]
           rest == SubSeq(queue, 1, Len(queue) - 1)
       IN IF id \in visited THEN reachable_walk(store, rest, visited)
          ELSE IF id \notin store
            THEN reachable_walk(store, rest, visited \cup {id})
            ELSE reachable_walk(store, rest \o dependencies(id), visited \cup {id})

\* A mutant of find_reachable_objects: the heads alone, nothing behind them.
find_reachable_heads_only(store, heads) == Range(heads)

\* negotiation::find_reachable_objects
find_reachable_objects(store, heads) == reachable_walk(store, heads, {})

\* str::starts_with on strings as character sequences.
starts_with(s, prefix) ==
  /\ Len(prefix) <= Len(s)
  /\ SubSeq(s, 1, Len(prefix)) = prefix

\* FetchObjectsRequest.filter when the request carries none.
NoFilter ==
  [present |-> FALSE, path_prefixes |-> {}, codec_ids |-> {},
   time_range_start |-> 0, time_range_end |-> 0]

\* The proto PartialCloneFilter messages the model's requests carry.
ProtoFilters ==
  { NoFilter,
    [NoFilter EXCEPT !.present = TRUE],
    [NoFilter EXCEPT !.present = TRUE, !.path_prefixes = {<<"s", "/">>, <<"x">>}],
    [NoFilter EXCEPT !.present = TRUE, !.codec_ids = {"json/tree"}],
    [NoFilter EXCEPT !.present = TRUE, !.path_prefixes = {<<"d">>},
                     !.codec_ids = {"text/line"}],
    [NoFilter EXCEPT !.present = TRUE, !.time_range_start = 15, !.time_range_end = 25],
    [NoFilter EXCEPT !.present = TRUE, !.time_range_start = 25] }

\* server.rs convert_filter: the time range is Some((start, end)), written
\* <<start, end>>, iff either bound is positive, and None, written <<>>, else.
convert_filter(filter) ==
  [path_prefixes |-> filter.path_prefixes,
   codec_ids |-> filter.codec_ids,
   time_range |-> IF filter.time_range_start > 0 \/ filter.time_range_end > 0
                    THEN <<filter.time_range_start, filter.time_range_end>>
                    ELSE <<>>]

\* PartialCloneFilter::matches_object
matches_object(f, store, id) ==
  IF id \notin store THEN FALSE
  ELSE CASE type_tag(id) = "patch" ->
              IF /\ f.path_prefixes # {}
                 /\ ~\E prefix \in f.path_prefixes : starts_with(target_path(id), prefix)
                THEN FALSE
              ELSE IF f.codec_ids # {} /\ codec_id(id) \notin f.codec_ids
                THEN FALSE
              ELSE TRUE
         [] type_tag(id) = "revision" ->
              IF /\ f.time_range # <<>>
                 /\ (created_at_ms(id) < f.time_range[1] \/ created_at_ms(id) > f.time_range[2])
                THEN FALSE
              ELSE TRUE
         [] OTHER -> TRUE

\* The FetchObjectsRequests of the model.
FetchRequests ==
  [want : {<<R1>>, <<R2>>, <<R3>>, <<R2, R3>>},
   have : {<<>>, <<R1>>, <<R2>>},
   filter : ProtoFilters]

\* A client sends a FetchObjectsRequest, one of `requests`: the handler makes
\* the channel, spawns the task that fills it, and returns the stream.
FetchCall(c, requests) ==
  /\ task[c].pc = "idle"
  /\ calls > 0
  /\ calls' = calls - 1
  /\ \E req \in requests :
       task' = [task EXCEPT ![c] = [IdleTask EXCEPT !.pc = "fo_wait", !.req = req]]
  /\ chan' = [chan EXCEPT ![c] = <<>>]
  /\ rxOpen' = [rxOpen EXCEPT ![c] = TRUE]
  /\ UNCHANGED <<srvVars, pushLog, locVars, subVars>>

\* store.read().await, then want_set and have_set.
FetchLock(c) ==
  /\ task[c].pc = "fo_wait"
  /\ read_free(srvLock)
  /\ srvLock' = [srvLock EXCEPT !.readers = @ \cup {c}]
  /\ LET want_set == find_reachable_objects(srvObjects, task[c].req.want)
         have_set == find_reachable_objects(srvObjects, task[c].req.have)
     IN task' = [task EXCEPT ![c].pc = IF want_set = {} THEN "fo_end" ELSE "fo_iter",
                             ![c].todo = want_set, ![c].have_set = have_set]
  /\ UNCHANGED <<srvObjects, srvRefs, srvReflog, calls, netVars, pushLog, locVars, subVars>>

\* One turn of `for id in &want_set`: a HashSet yields its elements in an
\* order of its own.  The id is passed over when it is in have_set, when the
\* filter rejects it or when its object does not load; its chunk is sent
\* otherwise, and a send that fails (the receiver is gone) leaves the loop.
FetchIter(c) ==
  /\ task[c].pc = "fo_iter"
  /\ \E id \in task[c].todo :
       LET rest == task[c].todo \ {id}
           t == task[c]
       IN IF \/ id \in t.have_set
             \/ t.req.filter.present
                  /\ ~matches_object(convert_filter(t.req.filter), srvObjects, id)
             \/ id \notin srvObjects
            THEN /\ task' = [task EXCEPT ![c].todo = rest,
                                         ![c].pc = IF rest = {} THEN "fo_end" ELSE "fo_iter"]
                 /\ UNCHANGED chan
          ELSE IF rxOpen[c]
            THEN /\ chan' = [chan EXCEPT ![c] = Append(@, id)]
                 /\ task' = [task EXCEPT ![c].todo = rest,
                                         ![c].pc = IF rest = {} THEN "fo_end" ELSE "fo_iter"]
          ELSE /\ task' = [task EXCEPT ![c].pc = "fo_end"]
               /\ UNCHANGED chan
  /\ UNCHANGED <<srvVars, calls, rxOpen, pushLog, locVars, subVars>>

\* The final marker (written None) is sent, its failure ignored; the task ends
\* and drops the read lock.
FetchFinish(c) ==
  /\ task[c].pc = "fo_end"
  /\ chan' = [chan EXCEPT ![c] = IF rxOpen[c] THEN Append(@, None) ELSE @]
  /\ srvLock' = [srvLock EXCEPT !.readers = @ \ {c}]
  /\ task' = [task EXCEPT ![c].pc = "done",
                          ![c].resp = [NoResp EXCEPT !.success = TRUE, !.kind = "fetch"]]
  /\ UNCHANGED <<srvObjects, srvRefs, srvReflog, calls, rxOpen, pushLog, locVars, subVars>>

\* The client drops the stream before the task has ended.
RxDrop(c) ==
  /\ task[c].pc \in {"fo_wait", "fo_iter", "fo_end"}
  /\ rxOpen[c]
  /\ rxOpen' = [rxOpen EXCEPT ![c] = FALSE]
  /\ UNCHANGED <<srvVars, task, calls, chan, pushLog, locVars, subVars>>

\* The stores a fetch is served from: every object, or the tree T1 missing.
FetchStores == {ObjIds, ObjIds \ {T1}}

InitFetch ==
  /\ srvObjects \in FetchStores
  /\ srvRefs = [n \in RefNames |-> None]
  /\ srvReflog = [n \in RefNames |-> <<>>]
  /\ srvLock = UnlockedStore
  /\ task = [c \in Clients |-> IdleTask]
  /\ calls = MaxFetchCalls
  /\ QuietNet
  /\ NoLocal

NextFetch ==
  \/ FetchCall(1, FetchRequests)
  \/ FetchLock(1)
  \/ FetchIter(1)
  \/ FetchFinish(1)
  \/ RxDrop(1)
  \/ Return(1)

SpecFetch == InitFetch /\ [][NextFetch]_vars

\* ------------------------------------------- the sync commands (claw sync)

\* The connection of the command line to the server.
Cli == 1

\* A mutant of is_last: the client takes every chunk for the final marker.
is_last_always(chunk) == TRUE

\* ObjectChunk.is_last as the client's fetch loop reads it: only the final
\* marker (written None) carries it.
is_last(chunk) == chunk = None

\* The server's advertise_refs with an empty prefix: the refs that exist, in
\* the order read_dir lists them: any order.
advertise_refs(refs) ==
  LET present == {n \in RefNames : refs[n] # None}
  IN {[i \in 1..Cardinality(present) |-> <<order[i], refs[order[i]]>>] :
        order \in {o \in [1..Cardinality(present) -> present] :
                     \A i, j \in 1..Cardinality(present) : i # j => o[i] # o[j]}}

\* A mutant of update_ref_cas: the transition is allowed whenever the current
\* value equals expected_old, whether or not it is an ancestor of new.
update_ref_cas_any_target(store, refs, reflog, name, expected_old, new) ==
  IF refs[name] # expected_old
    THEN [ok |-> FALSE, refs |-> refs, reflog |-> reflog]
  ELSE [ok |-> TRUE, refs |-> write_ref(refs, name, new),
        reflog |-> [reflog EXCEPT ![name] = Append(@, <<expected_old, new>>)]]

\* ClawStore::update_ref_cas is called by pull and is not among the sources;
\* this is section 4.3 of the specification: the transition is allowed iff the
\* current value equals expected_old (creation included), and expected_old must
\* be an ancestor of new; on success the ref is written and a reflog line
\* appended.
update_ref_cas(store, refs, reflog, name, expected_old, new) ==
  IF refs[name] # expected_old
    THEN [ok |-> FALSE, refs |-> refs, reflog |-> reflog]
  ELSE IF expected_old # None /\ ~is_ancestor(store, expected_old, new)
    THEN [ok |-> FALSE, refs |-> refs, reflog |-> reflog]
  ELSE [ok |-> TRUE, refs |-> write_ref(refs, name, new),
        reflog |-> [reflog EXCEPT ![name] = Append(@, <<expected_old, new>>)]]

RECURSIVE set_refs(_, _, _)
\* The loop of clone over the advertised refs: store.set_ref(name, id).
set_refs(refs, remote_refs, i) ==
  IF i > Len(remote_refs) THEN refs
  ELSE set_refs(write_ref(refs, remote_refs[i][1], remote_refs[i][2]), remote_refs, i + 1)

\* A command starts: the arguments, and the refs of both sides as they are.
StartCli(cmd, ref_name, force) ==
  [NoCli EXCEPT !.cmd = cmd, !.ref_name = ref_name, !.force = force,
                !.locRefs0 = locRefs, !.srvRefs0 = srvRefs]

\* claw sync push: the local ref is read, the reachable ids collected out of
\* the HashSet, and every object loaded into its chunk.
CliPush(ref_name, force) ==
  /\ cli.pc = "none"
  /\ LET local_id == locRefs[ref_name]
         reachable == find_reachable_objects(locObjects, <<local_id>>)
         start == StartCli("push", ref_name, force)
     IN cli' = IF local_id = None \/ ~(reachable \subseteq locObjects)
                 THEN [start EXCEPT !.pc = "failed"]
               ELSE [start EXCEPT !.pc = "push_stream", !.local_id = local_id,
                                  !.push_ids = reachable]
  /\ UNCHANGED <<srvVars, task, calls, netVars, pushLog,
                 locObjects, locRefs, locReflog, locHead, cdc, mrg, subVars>>

\* client.push_objects opens the stream.
CliPushCall ==
  /\ cli.pc = "push_stream"
  /\ PushCall(Cli)

\* The next chunk of the stream arrives: the ids leave the Vec in the order
\* the HashSet gave them, and each chunk carries its object's own id.
CliPushChunk ==
  /\ cli.pc = "push_stream"
  /\ PushRecv(Cli, {[id |-> i, obj |-> i, frame_ok |-> TRUE] :
                      i \in cli.push_ids \ Range(task[Cli].accepted)})

\* The end marker arrives after the last chunk.
CliPushEnd ==
  /\ cli.pc = "push_stream"
  /\ cli.push_ids \subseteq Range(task[Cli].accepted)
  /\ PushFinish(Cli)

\* stream.message() fails in the handler: the client has gone away.
PushAbort(c) ==
  /\ task[c].pc = "po_recv"
  /\ cli.pc = "cancelled"
  /\ task' = [task EXCEPT ![c].pc = "done",
                          ![c].resp = [NoResp EXCEPT !.kind = "stream"]]
  /\ srvLock' = [srvLock EXCEPT !.writer = IF @ = c THEN 0 ELSE @]
  /\ UNCHANGED <<srvObjects, srvRefs, srvReflog, calls, netVars, pushLog, locVars, subVars>>

\* client.push_objects returns the response.
CliPushResponse ==
  /\ cli.pc = "push_stream"
  /\ Done(Cli)
  /\ cli' = [cli EXCEPT !.pc = "push_advertise",
                        !.pushed = /\ task[Cli].resp.success
                                   /\ cli.push_ids \subseteq Range(task[Cli].accepted)]
  /\ task' = [task EXCEPT ![Cli] = IdleTask]
  /\ UNCHANGED <<srvVars, calls, netVars, pushLog,
                 locObjects, locRefs, locReflog, locHead, cdc, mrg, subVars>>

\* client.advertise_refs(""), to learn the remote's value of the ref.
CliPushAdvertise ==
  /\ cli.pc = "push_advertise"
  /\ read_free(srvLock)
  /\ cli' = [cli EXCEPT !.pc = "push_update", !.remote_old = srvRefs[cli.ref_name]]
  /\ UNCHANGED <<srvVars, task, calls, netVars, pushLog,
                 locObjects, locRefs, locReflog, locHead, cdc, mrg, subVars>>

\* client.update_refs with the one update of the push.
CliPushUpdateCall ==
  /\ cli.pc = "push_update"
  /\ UpdateRefsCall(Cli, {<<[name |-> cli.ref_name, old |-> cli.remote_old,
                             new |-> cli.local_id, force |-> cli.force]>>})

\* The response of update_refs ends the push.
CliPushUpdateResponse ==
  /\ cli.pc = "push_update"
  /\ Done(Cli)
  /\ cli' = [cli EXCEPT !.pc = IF task[Cli].resp.success THEN "finished" ELSE "failed"]
  /\ task' = [task EXCEPT ![Cli] = IdleTask]
  /\ UNCHANGED <<srvVars, calls, netVars, pushLog,
                 locObjects, locRefs, locReflog, locHead, cdc, mrg, subVars>>

\* claw sync pull up to the fetch: advertise_refs, the remote's value of the
\* ref (the command ends when there is none), the local value as the have list.
CliPull(ref_name, force) ==
  /\ cli.pc = "none"
  /\ read_free(srvLock)
  /\ LET remote_target == srvRefs[ref_name]
         local_id == locRefs[ref_name]
         start == StartCli("pull", ref_name, force)
     IN cli' = IF remote_target = None THEN [start EXCEPT !.pc = "finished"]
               ELSE [start EXCEPT !.pc = "pull_fetch", !.remote_id = remote_target,
                                  !.local_id = local_id,
                                  !.want = <<remote_target>>,
                                  !.have = IF local_id = None THEN <<>> ELSE <<local_id>>]
  /\ UNCHANGED <<srvVars, task, calls, netVars, pushLog,
                 locObjects, locRefs, locReflog, locHead, cdc, mrg, subVars>>

\* claw sync clone up to the fetch: ClawStore::init of a new repository,
\* hello, advertise_refs, every advertised target as the want list.
CliClone ==
  /\ cli.pc = "none"
  /\ locObjects = {}
  /\ \A n \in RefNames : locRefs[n] = None
  /\ read_free(srvLock)
  /\ \E remote_refs \in advertise_refs(srvRefs) :
       cli' = [StartCli("clone", "", FALSE) EXCEPT
                 !.pc = "clone_fetch", !.remote_refs = remote_refs,
                 !.want = [i \in 1..Len(remote_refs) |-> remote_refs[i][2]]]
  /\ UNCHANGED <<srvVars, task, calls, netVars, pushLog,
                 locObjects, locRefs, locReflog, locHead, cdc, mrg, subVars>>

\* client.fetch_objects sends the request, without a filter.
CliFetchCall ==
  /\ cli.pc \in {"pull_fetch", "clone_fetch"}
  /\ FetchCall(Cli, {[want |-> cli.want, have |-> cli.have, filter |-> NoFilter]})

\* One turn of the client's loop over the stream: the final marker ends the
\* call, any other chunk is decoded and stored.
CliFetchMessage ==
  /\ cli.pc \in {"pull_fetch", "clone_fetch"}
  /\ rxOpen[Cli]
  /\ cli.rx < Len(chan[Cli])
  /\ LET chunk == chan[Cli][cli.rx + 1]
     IN IF is_last(chunk)
          THEN /\ cli' = [cli EXCEPT !.rx = @ + 1,
                                     !.pc = IF cli.cmd = "pull" THEN "pull_update"
                                            ELSE "clone_refs"]
               /\ UNCHANGED locObjects
          ELSE /\ cli' = [cli EXCEPT !.rx = @ + 1]
               /\ locObjects' = store_object(locObjects, chunk)
  /\ UNCHANGED <<srvVars, task, calls, netVars, pushLog, locRefs, locReflog, locHead, cdc, mrg, subVars>>

\* The rest of pull: the fast-forward check against the local store, then
\* update_ref_cas from the value the ref has.
CliPullUpdate ==
  /\ cli.pc = "pull_update"
  /\ LET local == locRefs[cli.ref_name]
         old == locRefs[cli.ref_name]
         r == update_ref_cas(locObjects, locRefs, locReflog, cli.ref_name, old,
                             cli.remote_id)
     IN IF /\ local # None
           /\ ~is_ancestor(locObjects, local, cli.remote_id)
           /\ ~cli.force
          THEN /\ cli' = [cli EXCEPT !.pc = "failed"]
               /\ UNCHANGED <<locRefs, locReflog, subVars>>
          ELSE /\ cli' = [cli EXCEPT !.pc = IF r.ok THEN "finished" ELSE "failed"]
               /\ locRefs' = r.refs
               /\ locReflog' = r.reflog
  /\ UNCHANGED <<srvVars, task, calls, netVars, pushLog, locObjects, locHead, cdc, mrg, subVars>>

\* The rest of clone: every advertised ref is set, HEAD is written to
\* heads/main, and the revision to check out is loaded.
CliCloneSetRefs ==
  /\ cli.pc = "clone_refs"
  /\ locRefs' = set_refs(locRefs, cli.remote_refs, 1)
  /\ locHead' = "heads/main"
  /\ LET main_id == locRefs'["heads/main"]
         checkout_id == IF main_id # None THEN main_id
                        ELSE IF Len(cli.remote_refs) > 0 THEN cli.remote_refs[1][2]
                        ELSE None
     IN cli' = [cli EXCEPT !.pc = IF checkout_id # None /\ checkout_id \notin locObjects
                                    THEN "failed" ELSE "finished"]
  /\ UNCHANGED <<srvVars, task, calls, netVars, pushLog, locObjects, locReflog, cdc, mrg, subVars>>

\* The command is cancelled while it awaits a call of the server: its future
\* is dropped, and with it the stream it was reading.
CliCancel ==
  /\ cli.pc \in {"push_stream", "push_advertise", "push_update",
                 "pull_fetch", "clone_fetch"}
  /\ cli' = [cli EXCEPT !.pc = "cancelled", !.at = cli.pc]
  /\ rxOpen' = [rxOpen EXCEPT ![Cli] = FALSE]
  /\ UNCHANGED <<srvVars, task, calls, chan, pushLog,
                 locObjects, locRefs, locReflog, locHead, cdc, mrg, subVars>>

\* The objects of revision R2 and of revision R3 with all they depend on.
HistoryR2 == {R2, R1, T1, P1, B1}
HistoryR3 == {R3, R1, T1, P2, B1}

\* The repositories a command finds on the server and locally.
SyncServers ==
  { [objects |-> {}, refs |-> [n \in RefNames |-> None]],
    [objects |-> {R1, T1, B1},
     refs |-> [n \in RefNames |-> IF n = "heads/main" THEN R1 ELSE None]],
    [objects |-> HistoryR2,
     refs |-> [n \in RefNames |-> IF n = "heads/main" THEN R2 ELSE R1]],
    [objects |-> {R1, T1, B1},
     refs |-> [n \in RefNames |-> IF n = "heads/dev" THEN R1 ELSE None]] }

SyncLocals ==
  { [objects |-> {}, refs |-> [n \in RefNames |-> None]],
    [objects |-> {R1, T1, B1},
     refs |-> [n \in RefNames |-> IF n = "heads/main" THEN R1 ELSE None]],
    [objects |-> HistoryR2,
     refs |-> [n \in RefNames |-> IF n = "heads/main" THEN R2 ELSE None]],
    [objects |-> HistoryR3,
     refs |-> [n \in RefNames |-> IF n = "heads/main" THEN R3 ELSE R1]] }

InitSync ==
  /\ \E server \in SyncServers : srvObjects = server.objects /\ srvRefs = server.refs
  /\ srvReflog = [n \in RefNames |-> <<>>]
  /\ srvLock = UnlockedStore
  /\ task = [c \in Clients |-> IdleTask]
  /\ calls = MaxSyncCalls
  /\ QuietNet
  /\ \E local \in SyncLocals : locObjects = local.objects /\ locRefs = local.refs
  /\ locReflog = [n \in RefNames |-> <<>>]
  /\ locHead = ""
  /\ cli = NoCli
  /\ cdc = NoCodecCall
  /\ mrg = NoMerge
  /\ IdleSub

NextSync ==
  \/ \E ref_name \in RefNames, force \in BOOLEAN : CliPush(ref_name, force)
  \/ CliPushCall
  \/ PushLock(Cli)
  \/ CliPushChunk
  \/ CliPushEnd
  \/ PushAbort(Cli)
  \/ CliPushResponse
  \/ CliPushAdvertise
  \/ CliPushUpdateCall
  \/ UpdateRefsLock(Cli)
  \/ UpdateRefsVerify(Cli)
  \/ UpdateRefsApply(Cli)
  \/ CliPushUpdateResponse
  \/ \E ref_name \in RefNames, force \in BOOLEAN : CliPull(ref_name, force)
  \/ CliClone
  \/ CliFetchCall
  \/ FetchLock(Cli)
  \/ FetchIter(Cli)
  \/ FetchFinish(Cli)
  \/ CliFetchMessage
  \/ CliPullUpdate
  \/ CliCloneSetRefs
  \/ CliCancel

SpecSync == InitSync /\ [][NextSync]_vars

\* --------------------------------------------------- claims about fetch_objects

\* The chunks of client c's stream that carry an object.
Streamed(c) == {chan[c][i] : i \in 1..Len(chan[c])} \ {None}

\* The final marker has been sent on client c's stream.
StreamComplete(c) == Len(chan[c]) > 0 /\ chan[c][Len(chan[c])] = None

\* The handler of client c serves a fetch whose task holds the store.
Fetching(c) ==
  \/ task[c].pc \in {"fo_iter", "fo_end"}
  \/ Done(c) /\ task[c].resp.kind = "fetch"

\* C7: on every fetch stream no object is sent after an object that depends
\* on it, so each object follows those of its dependencies that the stream
\* carries.
C7_FetchDependencyFirst ==
  \A c \in Clients :
    \A i, j \in 1..Len(chan[c]) :
      i < j => chan[c][j] \notin Range(dependencies(chan[c][i]))

RECURSIVE ReachableSet(_, _)
\* The ids reachable from a set of ids over the dependency edges of the objects
\* a store holds, the set included: the least set closed under the edges.
ReachableSet(store, S) ==
  LET next == S \cup UNION {Range(dependencies(x)) : x \in S \cap store}
  IN IF next = S THEN S ELSE ReachableSet(store, next)

\* The filter of a request includes an object: a patch iff its path has one of
\* the prefixes (or there are none) and its codec is listed (or none is), a
\* revision iff its created_at_ms lies in the time range (or there is none),
\* every other object always.
FilterIncludes(filter, id) ==
  \/ ~filter.present
  \/ /\ type_tag(id) = "patch"
     /\ \/ filter.path_prefixes = {}
        \/ \E prefix \in filter.path_prefixes : starts_with(target_path(id), prefix)
     /\ \/ filter.codec_ids = {}
        \/ codec_id(id) \in filter.codec_ids
  \/ /\ type_tag(id) = "revision"
     /\ \/ filter.time_range_start = 0 /\ filter.time_range_end = 0
        \/ /\ filter.time_range_start <= created_at_ms(id)
           /\ created_at_ms(id) <= filter.time_range_end
  \/ type_tag(id) \notin {"patch", "revision"}

\* The objects fetch(want, have, filter) owes its client.
ExpectedFetch(store, req) ==
  {id \in (ReachableSet(store, Range(req.want)) \cap store)
            \ ReachableSet(store, Range(req.have)) :
     FilterIncludes(req.filter, id)}

\* C8: a fetch stream carries only objects reachable from want, not reachable
\* from have, that the filter includes; a stream that has reached its final
\* marker carries exactly those.
C8_FetchStreamsWantMinusHaveFiltered ==
  \A c \in Clients :
    Fetching(c) =>
      /\ Streamed(c) \subseteq ExpectedFetch(srvObjects, task[c].req)
      /\ StreamComplete(c) => Streamed(c) = ExpectedFetch(srvObjects, task[c].req)

\* C8 witness: a complete stream of a fetch with a have list and a filter of
\* path prefixes, which left out an object reachable from have and a patch the
\* filter rejects, and carried a patch and a revision.
C8_Witness ==
  \E c \in Clients :
    /\ Done(c) /\ task[c].resp.kind = "fetch"
    /\ StreamComplete(c)
    /\ task[c].req.filter.present
    /\ task[c].req.filter.path_prefixes # {}
    /\ LET want_all == ReachableSet(srvObjects, Range(task[c].req.want)) \cap srvObjects
           have_all == ReachableSet(srvObjects, Range(task[c].req.have))
       IN /\ want_all \cap have_all # {}
          /\ \E p \in (want_all \ have_all) \ Streamed(c) : type_tag(p) = "patch"
          /\ \E p \in Streamed(c) : type_tag(p) = "patch"
          /\ \E r \in Streamed(c) : type_tag(r) = "revision"

\* ------------------------------------------------- claims about update_refs

\* The updates before index i of a finished request all passed pass 1.
EarlierPass(t, i) ==
  \A j \in 1..(i - 1) : check_update(srvObjects, t.pre, t.req[j]).success

RECURSIVE AncestorsOf(_)
\* The revisions reachable from a set of revisions over parent edges of the
\* object graph itself (whatever a store holds), the set included.
AncestorsOf(S) ==
  LET next == S \cup UNION {Range(parents(r)) : r \in S}
  IN IF next = S THEN S ELSE AncestorsOf(next)

DagAncestor(a, d) == a \in AncestorsOf({d})

\* C1: a batch in which some update fails its check is answered with a
\* failure and leaves every ref as it was when the handler took the store.
C1_BatchAllOrNothing ==
  \A c \in Clients :
    Done(c) =>
      LET t == task[c]
      IN (\E i \in 1..Len(t.req) : ~check_update(srvObjects, t.pre, t.req[i]).success)
           => (~t.resp.success /\ t.post = t.pre)

\* C1 witness: a finished two-update batch whose first update passed and
\* would have moved its ref, and whose second update failed.
C1_Witness ==
  \E c \in Clients :
    /\ Done(c)
    /\ Len(task[c].req) = 2
    /\ check_update(srvObjects, task[c].pre, task[c].req[1]).success
    /\ task[c].req[1].new \notin {None, task[c].pre[task[c].req[1].name]}
    /\ ~check_update(srvObjects, task[c].pre, task[c].req[2]).success
    /\ ~task[c].resp.success

\* C2 (as stated): an update passes the compare-and-set test iff the ref's
\* current value equals the expected old value (both absent included); in
\* every other case the response is a CAS conflict for that update, reporting
\* expected and actual, and the refs are as before.
C2_CasIffEqual ==
  \A c \in Clients :
    Done(c) =>
      LET t == task[c]
      IN /\ \A i \in 1..Len(t.req) :
              EarlierPass(t, i) =>
                ((t.pre[t.req[i].name] # t.req[i].old)
                   <=> (t.resp.kind = "cas" /\ t.resp.index = i))
         /\ t.resp.kind = "cas" =>
              /\ t.resp.expected = t.req[t.resp.index].old
              /\ t.resp.actual = t.pre[t.req[t.resp.index].name]
              /\ t.post = t.pre

\* The compare-and-set test as amended: equal values, or a forced update
\* without an expected old value of a ref that exists.
CasAllowedAmended(update, refs) ==
  \/ refs[update.name] = update.old
  \/ update.force /\ update.old = None /\ refs[update.name] # None

\* C2 (amended): an update passes the compare-and-set test iff the ref's
\* current value equals the expected old value, or both are absent, or the
\* update is forced, names no expected old value and the ref exists; in every
\* other case the response is a CAS conflict for that update, reporting
\* expected and actual, and the refs are as before.
C2_CasIffEqualOrForcedOverwrite ==
  \A c \in Clients :
    Done(c) =>
      LET t == task[c]
      IN /\ \A i \in 1..Len(t.req) :
              EarlierPass(t, i) =>
                (~CasAllowedAmended(t.req[i], t.pre)
                   <=> (t.resp.kind = "cas" /\ t.resp.index = i))
         /\ t.resp.kind = "cas" =>
              /\ t.resp.expected = t.req[t.resp.index].old
              /\ t.resp.actual = t.pre[t.req[t.resp.index].name]
              /\ t.post = t.pre

\* C2 witness: a finished request answered with a CAS conflict although the
\* update was forced (its expected old value differs from the ref's value).
C2_Witness ==
  \E c \in Clients :
    /\ Done(c)
    /\ task[c].resp.kind = "cas"
    /\ task[c].req[task[c].resp.index].force
    /\ task[c].req[task[c].resp.index].old # None
    /\ task[c].pre[task[c].req[task[c].resp.index].name] # None

\* C3: an accepted update that is not forced and has an expected old value
\* moves the ref to a descendant of that value; a non-forced update that
\* passes the compare-and-set test and whose new value is no descendant is
\* answered non-fast-forward, and the refs are as before.
C3_FastForwardUnlessForce ==
  \A c \in Clients :
    Done(c) =>
      LET t == task[c]
      IN /\ t.resp.success =>
              \A i \in 1..Len(t.req) :
                (~t.req[i].force /\ t.req[i].old # None /\ t.req[i].new # None)
                  => DagAncestor(t.req[i].old, t.req[i].new)
         /\ \A i \in 1..Len(t.req) :
              ( /\ EarlierPass(t, i)
                /\ ~t.req[i].force
                /\ t.req[i].old # None
                /\ t.req[i].new # None
                /\ t.pre[t.req[i].name] = t.req[i].old
                /\ ~DagAncestor(t.req[i].old, t.req[i].new) )
              => (t.resp.kind = "nonff" /\ t.resp.index = i /\ t.post = t.pre)

\* C3 witness: an accepted, non-forced update that moved a ref to a proper
\* descendant of its expected old value.
C3_Witness ==
  \E c \in Clients :
    /\ Done(c)
    /\ task[c].resp.success
    /\ \E i \in 1..Len(task[c].req) :
         /\ ~task[c].req[i].force
         /\ task[c].req[i].old # None
         /\ task[c].req[i].new \notin {None, task[c].req[i].old}
         /\ task[c].post[task[c].req[i].name] = task[c].req[i].new

RECURSIVE ExpectedLines(_, _, _)
\* The reflog lines a batch owes to one ref: <<old, new>> of each of its
\* updates of that ref, in order.
ExpectedLines(updates, name, i) ==
  IF i > Len(updates) THEN <<>>
  ELSE (IF updates[i].name = name /\ updates[i].new # None
          THEN << <<updates[i].old, updates[i].new>> >> ELSE <<>>)
       \o ExpectedLines(updates, name, i + 1)

\* C4: every successful update appended one reflog line <<expected old, new>>
\* to its ref's reflog.
C4_ReflogLinePerUpdate ==
  \A c \in Clients :
    (Done(c) /\ task[c].resp.success) =>
      \A n \in RefNames :
        task[c].postLog[n] = task[c].preLog[n] \o ExpectedLines(task[c].req, n, 1)

\* Two finished single-update requests of different clients that were in
\* flight at the same time and update the same ref from the same expected old
\* value to different new values (both name a new target).
Rivals(c, d) ==
  /\ c # d
  /\ Done(c) /\ Done(d)
  /\ task[c].conc /\ task[d].conc
  /\ Len(task[c].req) = 1 /\ Len(task[d].req) = 1
  /\ task[c].req[1].name = task[d].req[1].name
  /\ task[c].req[1].old = task[d].req[1].old
  /\ task[c].req[1].new # None /\ task[d].req[1].new # None
  /\ task[c].req[1].new # task[d].req[1].new

MovingCasUpdate(u) ==
  /\ u.new \notin {None, u.old}
  /\ ~(u.force /\ u.old = None)

C9_PushDependencyFirst ==
  cli.cmd = "push" =>
    \A i, j \in 1..Len(task[Cli].accepted) :
      i < j => task[Cli].accepted[j] \notin Range(dependencies(task[Cli].accepted[i]))

\* The object streaming of the running command has completed: of a push, the
\* server has answered a stream that carried every object; of a pull or a
\* clone, the server has sent the final marker and the client has read every
\* chunk up to it.
StreamingComplete ==
  IF cli.cmd = "push" THEN cli.pushed
  ELSE StreamComplete(Cli) /\ cli.rx = Len(chan[Cli])

\* Some ref, local or on the server, differs from its value at the start of
\* the command.
RefChanged == locRefs # cli.locRefs0 \/ srvRefs # cli.srvRefs0

NL == "\n"
NoData == <<"None">>

Min(S) == CHOOSE x \in S : \A y \in S : x <= y
Max2(a, b) == IF a >= b THEN a ELSE b
Min2(a, b) == IF a <= b THEN a ELSE b

RECURSIVE split_lines(_, _, _, _)
\* The pieces of s from index i on that line feeds end, cur being the piece
\* under way; each piece keeps its line feed when keep_nl.  A final line feed
\* ends the last piece and starts no new one.
split_lines(s, i, cur, keep_nl) ==
  IF i > Len(s) THEN (IF cur = <<>> THEN <<>> ELSE <<cur>>)
  ELSE IF s[i] = NL
    THEN <<IF keep_nl THEN Append(cur, NL) ELSE cur>> \o split_lines(s, i + 1, <<>>, keep_nl)
  ELSE split_lines(s, i + 1, Append(cur, s[i]), keep_nl)

\* str::lines(): the lines without their terminators.
lines(s) == split_lines(s, 1, <<>>, FALSE)

\* TextDiff::from_lines: the lines with their terminators, which is what the
\* diff compares and what old_slices()/new_slices() hold.
from_lines(s) == split_lines(s, 1, <<>>, TRUE)

RECURSIVE join(_, _)
\* [T]::join(sep)
join(pieces, sep) ==
  IF pieces = <<>> THEN <<>>
  ELSE IF Len(pieces) = 1 THEN pieces[1]
  ELSE pieces[1] \o sep \o join(Tail(pieces), sep)

ends_with_nl(s) == s # <<>> /\ s[Len(s)] = NL

\* The diff of the `similar` crate is modelled where it is forced: no line
\* occurs twice in either text and the lines both texts have occur in the
\* same order, so that every shortest edit script keeps exactly those lines.
Distinct(q) == \A i, j \in 1..Len(q) : q[i] = q[j] => i = j
DiffDetermined(old, new) ==
  LET o == from_lines(old)
      n == from_lines(new)
  IN /\ Distinct(o) /\ Distinct(n)
     /\ \A i1, i2 \in 1..Len(o), j1, j2 \in 1..Len(n) :
          (o[i1] = n[j1] /\ o[i2] = n[j2] /\ i1 < i2) => j1 < j2

RECURSIVE diff_ops(_, _, _, _)
\* The loop over diff.ops(): an Equal run emits nothing; between two runs the
\* old slices i..i2-1 are deleted and the new slices j..j2-1 inserted, as one
\* delete, insert or replace whose address is the old line the gap starts at.
diff_ops(o, n, i, j) ==
  IF i > Len(o) /\ j > Len(n) THEN <<>>
  ELSE IF i <= Len(o) /\ j <= Len(n) /\ o[i] = n[j] THEN diff_ops(o, n, i + 1, j + 1)
  ELSE LET kept == {k \in i..Len(o) : \E m \in j..Len(n) : o[k] = n[m]}
           i2 == IF kept = {} THEN Len(o) + 1 ELSE Min(kept)
           j2 == IF kept = {} THEN Len(n) + 1
                 ELSE Min({m \in j..Len(n) : n[m] = o[i2]})
           deleted == join(SubSeq(o, i, i2 - 1), <<>>)
           inserted == join(SubSeq(n, j, j2 - 1), <<>>)
           op == IF j2 = j
                   THEN [address |-> i - 1, op_type |-> "delete",
                         old_data |-> deleted, new_data |-> NoData]
                 ELSE IF i2 = i
                   THEN [address |-> i - 1, op_type |-> "insert",
                         old_data |-> NoData, new_data |-> inserted]
                 ELSE [address |-> i - 1, op_type |-> "replace",
                       old_data |-> deleted, new_data |-> inserted]
       IN <<op>> \o diff_ops(o, n, i2, j2)

diff(old, new) == diff_ops(from_lines(old), from_lines(new), 1, 1)

\* Vec::insert of new_lines at index insert_at (0-based), Vec::drain of count
\* lines from index at.
insert_lines(ls, insert_at, new_lines) ==
  SubSeq(ls, 1, insert_at) \o new_lines \o SubSeq(ls, insert_at + 1, Len(ls))
drain(ls, at, count) == SubSeq(ls, 1, at) \o SubSeq(ls, at + count + 1, Len(ls))

RECURSIVE apply_ops(_, _, _, _)
\* The loop of apply over the ops.  adjusted is a usize: a negative sum wraps
\* to a huge index, which an insert clamps to the end of the file and which
\* makes a delete or a replace fail (the bounds check, or the overflow of
\* adjusted + count, ends the call without a result in every build).
apply_ops(ls, ops, k, offset) ==
  IF k > Len(ops) THEN [ok |-> TRUE, lines |-> ls]
  ELSE
    LET op == ops[k]
        adjusted == op.address + offset
        insert_at == IF adjusted < 0 THEN Len(ls) ELSE Min2(adjusted, Len(ls))
    IN CASE op.op_type = "delete" ->
              IF op.old_data = NoData THEN [ok |-> FALSE, lines |-> <<>>]
              ELSE LET count == Max2(Len(lines(op.old_data)), 1)
                   IN IF adjusted < 0 \/ adjusted + count > Len(ls)
                        THEN [ok |-> FALSE, lines |-> <<>>]
                      ELSE apply_ops(drain(ls, adjusted, count), ops, k + 1, offset - count)
         [] op.op_type = "insert" ->
              IF op.new_data = NoData THEN [ok |-> FALSE, lines |-> <<>>]
              ELSE LET new_lines == lines(op.new_data)
                   IN apply_ops(insert_lines(ls, insert_at, new_lines), ops, k + 1,
                                offset + Len(new_lines))
         [] op.op_type = "replace" ->
              IF op.old_data = NoData \/ op.new_data = NoData
                THEN [ok |-> FALSE, lines |-> <<>>]
              ELSE LET del_count == Max2(Len(lines(op.old_data)), 1)
                       new_lines == lines(op.new_data)
                   IN IF adjusted < 0 \/ adjusted + del_count > Len(ls)
                        THEN [ok |-> FALSE, lines |-> <<>>]
                      ELSE apply_ops(insert_lines(drain(ls, adjusted, del_count),
                                                  Min2(adjusted, Len(ls) - del_count),
                                                  new_lines),
                                     ops, k + 1, offset + Len(new_lines) - del_count)
         [] OTHER -> [ok |-> FALSE, lines |-> <<>>]

\* apply ends by joining the lines with line feeds and adding a final one
\* when the BASE ended with one, or was empty, and the result is not empty.
apply_trailing_newline_from_base(base, result) ==
  IF (ends_with_nl(base) \/ base = <<>>) /\ result # <<>> THEN result \o <<NL>> ELSE result

apply_result(base, r) ==
  IF ~r.ok THEN [ok |-> FALSE, data |-> <<>>]
  ELSE [ok |-> TRUE, data |-> apply_trailing_newline_from_base(base, join(r.lines, <<NL>>))]

apply(base, ops) == apply_result(base, apply_ops(lines(base), ops, 1, 0))

RECURSIVE Reverse(_)
Reverse(q) == IF q = <<>> THEN <<>> ELSE Reverse(Tail(q)) \o <<Head(q)>>

invert_op(op) ==
  CASE op.op_type = "delete" -> [op EXCEPT !.op_type = "insert", !.old_data = NoData,
                                           !.new_data = op.old_data]
    [] op.op_type = "insert" -> [op EXCEPT !.op_type = "delete", !.old_data = op.new_data,
                                           !.new_data = NoData]
    [] op.op_type = "replace" -> [op EXCEPT !.old_data = op.new_data, !.new_data = op.old_data]
    [] OTHER -> op

\* invert: every op swapped with its address kept, then the order reversed.
invert(ops) == Reverse([k \in 1..Len(ops) |-> invert_op(ops[k])])

op_line_count(op) ==
  CASE op.op_type \in {"delete", "replace"} ->
         IF op.old_data = NoData THEN 1 ELSE Max2(Len(lines(op.old_data)), 1)
    [] op.op_type = "insert" ->
         IF op.new_data = NoData THEN 1 ELSE Max2(Len(lines(op.new_data)), 1)
    [] OTHER -> 0

\* The line range an op occupies for the overlap test of commute: a delete or
\* a replace spans its lines, an insert spans nothing.
op_range(op, start) ==
  IF op.op_type \in {"delete", "replace"} THEN <<start, start + op_line_count(op)>>
  ELSE <<start, start>>

RECURSIVE commute_right_op(_, _, _, _)
\* The inner loop of commute for one op of right: its address after the ops
\* of left, or no address when it overlaps one of them.
commute_right_op(r_op, left, k, r_adjusted) ==
  IF k > Len(left) THEN [can_commute |-> TRUE, address |-> r_adjusted]
  ELSE LET l_op == left[k]
           l == op_range(l_op, l_op.address)
           r == op_range(r_op, r_adjusted)
       IN IF r[1] < l[2] /\ r[2] > l[1] THEN [can_commute |-> FALSE, address |-> 0]
          ELSE commute_right_op(r_op, left, k + 1,
                 IF r[1] >= l[2]
                   THEN CASE l_op.op_type = "delete" -> r_adjusted - op_line_count(l_op)
                          [] l_op.op_type = "insert" -> r_adjusted + op_line_count(l_op)
                          [] OTHER -> r_adjusted
                 ELSE r_adjusted)

RECURSIVE commute_left_op(_, _, _)
\* The second loop of commute for one op of left against the moved right ops.
commute_left_op(new_right, k, l_adjusted) ==
  IF k > Len(new_right) THEN Max2(l_adjusted, 0)
  ELSE LET r_op == new_right[k]
       IN commute_left_op(new_right, k + 1,
            IF l_adjusted < 0 \/ l_adjusted > r_op.address
              THEN CASE r_op.op_type = "insert" -> l_adjusted + op_line_count(r_op)
                     [] r_op.op_type = "delete" -> l_adjusted - op_line_count(r_op)
                     [] OTHER -> l_adjusted
            ELSE l_adjusted)

\* The second half of commute: left moved before the moved right ops.
commute_left(left, new_right) ==
  [ok |-> TRUE, right |-> new_right,
   left |-> [k \in 1..Len(left) |->
               [left[k] EXCEPT !.address = commute_left_op(new_right, 1, left[k].address)]]]

commute_moved(left, right, moved) ==
  IF \E k \in 1..Len(right) : ~moved[k].can_commute
    THEN [ok |-> FALSE, right |-> <<>>, left |-> <<>>]
  ELSE commute_left(left, [k \in 1..Len(right) |->
                             [right[k] EXCEPT !.address = moved[k].address]])

\* commute(left, right): CommuteFailed when an op of right overlaps an op of
\* left, else right moved past left and left moved before right.
commute(left, right) ==
  commute_moved(left, right,
                [k \in 1..Len(right) |-> commute_right_op(right[k], left, 1, right[k].address)])

\* collect_changes: old line a change starts at -> the lines it puts there.
changes_of(ops) ==
  [a \in {ops[k].address : k \in 1..Len(ops)} |->
     LET op == CHOOSE op \in {ops[k] : k \in 1..Len(ops)} : op.address = a
     IN IF op.new_data = NoData THEN <<>> ELSE lines(op.new_data)]
collect_changes(old, new) == changes_of(diff(old, new))

RECURSIVE merge3_lines(_, _, _, _)
\* The while loop of merge3 over the base lines (i is 0-based).
merge3_lines(base_lines, left_changes, right_changes, i) ==
  IF i >= Len(base_lines)
    THEN [ok |-> TRUE,
          lines |-> (IF i \in DOMAIN left_changes THEN left_changes[i] ELSE <<>>)
                    \o (IF i \in DOMAIN right_changes THEN right_changes[i] ELSE <<>>)]
  ELSE
    LET left_changed == i \in DOMAIN left_changes
        right_changed == i \in DOMAIN right_changes
        rest == merge3_lines(base_lines, left_changes, right_changes, i + 1)
        here == IF left_changed THEN left_changes[i]
                ELSE IF right_changed THEN right_changes[i]
                ELSE <<base_lines[i + 1]>>
    IN IF left_changed /\ right_changed /\ left_changes[i] # right_changes[i]
         THEN [ok |-> FALSE, lines |-> <<>>]
       ELSE IF ~rest.ok THEN rest
       ELSE [ok |-> TRUE, lines |-> here \o rest.lines]

\* merge3(base, left, right): Merge3Failed when both sides changed the same
\* base line differently.
merge3_output(left, right, output) ==
  IF (ends_with_nl(left) \/ ends_with_nl(right)) /\ output # <<>>
    THEN output \o <<NL>> ELSE output
merge3_result(left, right, r) ==
  IF ~r.ok THEN [ok |-> FALSE, data |-> <<>>]
  ELSE [ok |-> TRUE, data |-> merge3_output(left, right, join(r.lines, <<NL>>))]
merge3(base, left, right) ==
  merge3_result(left, right,
                merge3_lines(lines(base), collect_changes(base, left),
                             collect_changes(base, right), 0))

\* ---------------------------------------------------------------------------
\* The merge engine (claw-merge) and the commands snapshot and integrate.
\* A tree is the flat map path -> bytes of its files; a patch or a tree,
\* being content-addressed, stands for its own id.  The revisions are those
\* of the history above: R1, and R2 and R3 snapshotted on top of it.
\* ---------------------------------------------------------------------------

Paths == <<"f.txt", "g.txt">>
PathSet == Range(Paths)
CodecIds == <<"binary", "json/tree", "text/line">>

Bytes(ls) == join([k \in 1..Len(ls) |-> <<ls[k], NL>>], <<>>)

\* CodecRegistry::default(), and a registry its caller built without the
\* text codec.
DefaultRegistry == {"text/line", "json/tree", "binary"}
Registries == {DefaultRegistry, {"json/tree", "binary"}}
registry_get(registry, codec) == codec \in registry

\* get_by_extension of the default registry, on the extension of the path.
NoCodec == ""
get_by_extension(path) == IF path \in {"f.txt", "g.txt"} THEN "text/line" ELSE NoCodec

\* diff_trees: the paths added, modified or deleted between two trees, in
\* path order.
diff_trees(old_tree, new_tree) ==
  SelectSeq(Paths, LAMBDA p :
    \/ (p \in DOMAIN old_tree) # (p \in DOMAIN new_tree)
    \/ p \in DOMAIN old_tree /\ p \in DOMAIN new_tree /\ old_tree[p] # new_tree[p])

content_at(tree, path) == IF path \in DOMAIN tree THEN tree[path] ELSE <<>>

RECURSIVE snapshot_patches(_, _, _, _)
\* The loop of snapshot over the changes: one patch per changed path that has
\* a codec and a diff that is not empty.
snapshot_patches(old_tree, new_tree, changes, k) ==
  IF k > Len(changes) THEN <<>>
  ELSE LET path == changes[k]
           codec == get_by_extension(path)
           ops == diff(content_at(old_tree, path), content_at(new_tree, path))
       IN (IF codec # NoCodec /\ ops # <<>>
             THEN <<[target_path |-> path, codec_id |-> codec, ops |-> ops]>>
           ELSE <<>>)
          \o snapshot_patches(old_tree, new_tree, changes, k + 1)

RECURSIVE find_lca_loop(_, _, _, _, _)
\* The loop of find_lca: one step of the walk from left, then one from right.
find_lca_loop(store, left_ancestors, right_ancestors, left_queue, right_queue) ==
  IF left_queue = <<>> /\ right_queue = <<>> THEN None
  ELSE IF left_queue # <<>> /\ Head(left_queue) \in right_ancestors THEN Head(left_queue)
  ELSE
    LET left_new == IF left_queue # <<>> /\ Head(left_queue) \in store
                      THEN SelectSeq(parents(Head(left_queue)),
                                     LAMBDA p : p \notin left_ancestors)
                    ELSE <<>>
        left_ancestors2 == left_ancestors \cup Range(left_new)
        left_queue2 == (IF left_queue = <<>> THEN <<>> ELSE Tail(left_queue)) \o left_new
    IN IF right_queue # <<>> /\ Head(right_queue) \in left_ancestors2 THEN Head(right_queue)
       ELSE
         LET right_new == IF right_queue # <<>> /\ Head(right_queue) \in store
                            THEN SelectSeq(parents(Head(right_queue)),
                                           LAMBDA p : p \notin right_ancestors)
                          ELSE <<>>
         IN find_lca_loop(store, left_ancestors2, right_ancestors \cup Range(right_new),
                          left_queue2,
                          (IF right_queue = <<>> THEN <<>> ELSE Tail(right_queue)) \o right_new)

find_lca(store, left, right) ==
  IF left = right THEN left
  ELSE find_lca_loop(store, {left}, {right}, <<left>>, <<right>>)

RECURSIVE collect_recursive(_, _, _, _)
RECURSIVE collect_parents(_, _, _, _, _)
\* collect_recursive: the patches of the parents first, then the revision's.
collect_recursive(revs, current, stop_at, acc) ==
  IF current = stop_at \/ current \in acc.visited THEN acc
  ELSE LET below == collect_parents(revs, parents(current), 1, stop_at,
                                    [acc EXCEPT !.visited = @ \cup {current}])
       IN [below EXCEPT !.patches = @ \o revs[current].patches]
collect_parents(revs, ps, k, stop_at, acc) ==
  IF k > Len(ps) THEN acc
  ELSE collect_parents(revs, ps, k + 1, stop_at, collect_recursive(revs, ps[k], stop_at, acc))

collect_patches(revs, ancestor, head) ==
  collect_recursive(revs, head, ancestor, [patches |-> <<>>, visited |-> {}]).patches

\* group_patches: the keys (target_path, codec_id), and the patches of a key
\* in their order.
group_keys(patches) ==
  {<<patches[k].target_path, patches[k].codec_id>> : k \in 1..Len(patches)}
group_of(patches, key) ==
  SelectSeq(patches, LAMBDA p : p.target_path = key[1] /\ p.codec_id = key[2])

\* The order of a BTreeSet of keys: by path, then by codec id.
rank_in(q, x) == CHOOSE k \in 1..Len(q) : q[k] = x
key_rank(key) == rank_in(Paths, key[1]) * (Len(CodecIds) + 1) + rank_in(CodecIds, key[2])
RECURSIVE sorted_keys(_)
sorted_keys(keys) ==
  IF keys = {} THEN <<>>
  ELSE LET first == CHOOSE a \in keys : \A b \in keys : key_rank(a) <= key_rank(b)
       IN <<first>> \o sorted_keys(keys \ {first})

patch_ops(patches) == [k \in 1..Len(patches) |-> patches[k].ops]

RECURSIVE commute_past(_, _, _)
RECURSIVE commute_past_next(_, _, _)
\* The inner loop of commute_rebase: one right patch commuted past every
\* left patch in turn.
commute_past(current_left, commuted_right, k) ==
  IF k > Len(current_left) THEN [ok |-> TRUE, right |-> commuted_right, left |-> <<>>]
  ELSE commute_past_next(current_left, k, commute(current_left[k], commuted_right))
commute_past_rest(c, rest) ==
  IF ~rest.ok THEN rest
  ELSE [ok |-> TRUE, right |-> rest.right, left |-> <<c.left>> \o rest.left]
commute_past_next(current_left, k, c) ==
  IF ~c.ok THEN [ok |-> FALSE, right |-> <<>>, left |-> <<>>]
  ELSE commute_past_rest(c, commute_past(current_left, c.right, k + 1))

RECURSIVE rebase_rights(_, _, _)
RECURSIVE rebase_rights_next(_, _, _)
\* The outer loop of commute_rebase over the right patches.
rebase_rights(current_left, right_ops, k) ==
  IF k > Len(right_ops) THEN [ok |-> TRUE, new_right |-> <<>>]
  ELSE rebase_rights_next(right_ops, k, commute_past(current_left, right_ops[k], 1))
rebase_rights_rest(c, rest) ==
  IF ~rest.ok THEN rest
  ELSE [ok |-> TRUE, new_right |-> <<c.right>> \o rest.new_right]
rebase_rights_next(right_ops, k, c) ==
  IF ~c.ok THEN [ok |-> FALSE, new_right |-> <<>>]
  ELSE rebase_rights_rest(c, rebase_rights(c.left, right_ops, k + 1))

rebase_result(c) ==
  IF c.ok THEN [ok |-> TRUE, err |-> "", new_right |-> c.new_right]
  ELSE [ok |-> FALSE, err |-> "CommuteFailed", new_right |-> <<>>]
commute_rebase(registry, codec, l, r) ==
  IF ~registry_get(registry, codec)
    THEN [ok |-> FALSE, err |-> "CodecNotFound", new_right |-> <<>>]
  ELSE rebase_result(rebase_rights(patch_ops(l), patch_ops(r), 1))

RECURSIVE apply_patches(_, _, _)
RECURSIVE apply_patches_next(_, _, _)
\* content = codec.apply(&content, &patch.ops)? over the patches from k on.
apply_patches(content, patches, k) ==
  IF k > Len(patches) THEN [ok |-> TRUE, data |-> content]
  ELSE apply_patches_next(patches, k, apply(content, patches[k].ops))
apply_patches_next(patches, k, r) ==
  IF ~r.ok THEN r ELSE apply_patches(r.data, patches, k + 1)

NoPatch == [target_path |-> "", codec_id |-> "", ops |-> <<>>]

\* The end of try_merge3_fallback: the merged content diffed against the base.
fallback_merged(codec, path, base_content, merged_content) ==
  IF ~merged_content.ok THEN [ok |-> FALSE, err |-> "Merge3Failed", patch |-> NoPatch]
  ELSE [ok |-> TRUE, err |-> "",
        patch |-> [target_path |-> path, codec_id |-> codec,
                   ops |-> diff(base_content, merged_content.data)]]

\* Its middle: the three-way merge of the contents of both sides.
fallback_sides(codec, path, base_content, left_content, right_content) ==
  IF ~left_content.ok \/ ~right_content.ok
    THEN [ok |-> FALSE, err |-> "ApplyFailed", patch |-> NoPatch]
  ELSE fallback_merged(codec, path, base_content,
                       merge3(base_content, left_content.data, right_content.data))

try_merge3_fallback(revs, registry, ancestor, codec, path, l, r) ==
  IF ~registry_get(registry, codec)
    THEN [ok |-> FALSE, err |-> "CodecNotFound", patch |-> NoPatch]
  ELSE fallback_sides(codec, path, content_at(revs[ancestor].tree, path),
                      apply_patches(content_at(revs[ancestor].tree, path), l, 1),
                      apply_patches(content_at(revs[ancestor].tree, path), r, 1))

\* A mutant of open_conflict: the Conflict names the right side's patches on
\* both sides.
open_conflict_right_chain_twice(ancestor, left_head, right_head, key, l, r) ==
  [base_revision |-> ancestor, left_revision |-> left_head, right_revision |-> right_head,
   file_path |-> key[1], codec_id |-> key[2], left_patch_ids |-> r, right_patch_ids |-> r,
   resolution_patch_ids |-> <<>>, status |-> "open"]
\* The Conflict merge emits for a key whose commutation and merge3 failed.
open_conflict(ancestor, left_head, right_head, key, l, r) ==
  [base_revision |-> ancestor, left_revision |-> left_head, right_revision |-> right_head,
   file_path |-> key[1], codec_id |-> key[2], left_patch_ids |-> l, right_patch_ids |-> r,
   resolution_patch_ids |-> <<>>, status |-> "open"]

\* The arm Err(_) of the fallback: a patch of the merged content, or, on any
\* error, a Conflict.
group_fallback(ancestor, left_head, right_head, key, l, r, merge3_patch) ==
  IF merge3_patch.ok THEN [merged_patches |-> <<merge3_patch.patch>>, conflicts |-> <<>>]
  ELSE [merged_patches |-> <<>>,
        conflicts |-> <<open_conflict(ancestor, left_head, right_head, key, l, r)>>]

\* The arms of match commute_rebase(...): the left patches and the rebased
\* right ones, or, on any error (Err(_)), the merge3 fallback.
group_rebased(revs, registry, ancestor, left_head, right_head, key, l, r, rebased) ==
  IF rebased.ok
    THEN [merged_patches |->
            l \o [k \in 1..Len(rebased.new_right) |->
                    [target_path |-> key[1], codec_id |-> key[2],
                     ops |-> rebased.new_right[k]]],
          conflicts |-> <<>>]
  ELSE group_fallback(ancestor, left_head, right_head, key, l, r,
                      try_merge3_fallback(revs, registry, ancestor, key[2], key[1], l, r))

\* The body of merge's loop for one key.
merge_group(revs, registry, ancestor, left_head, right_head, key, l, r) ==
  IF r = <<>> THEN [merged_patches |-> l, conflicts |-> <<>>]
  ELSE IF l = <<>> THEN [merged_patches |-> r, conflicts |-> <<>>]
  ELSE group_rebased(revs, registry, ancestor, left_head, right_head, key, l, r,
                     commute_rebase(registry, key[2], l, r))

groups_append(here, rest) ==
  [merged_patches |-> here.merged_patches \o rest.merged_patches,
   conflicts |-> here.conflicts \o rest.conflicts]

RECURSIVE merge_groups(_, _, _, _, _, _, _, _)
\* Step 4 of merge: the loop over all keys, in their order.
merge_groups(revs, registry, ancestor, left_head, right_head, left_patches, right_patches, keys) ==
  IF keys = <<>> THEN [merged_patches |-> <<>>, conflicts |-> <<>>]
  ELSE groups_append(
         merge_group(revs, registry, ancestor, left_head, right_head, Head(keys),
                     group_of(left_patches, Head(keys)), group_of(right_patches, Head(keys))),
         merge_groups(revs, registry, ancestor, left_head, right_head,
                      left_patches, right_patches, Tail(keys)))

paths_of(patches) == {patches[k].target_path : k \in 1..Len(patches)}
patches_at(patches, path) == SelectSeq(patches, LAMBDA p : p.target_path = path)

RECURSIVE apply_by_path(_, _, _, _)
RECURSIVE path_patched(_, _, _, _, _, _)
\* The loop of build_merged_tree over the paths that have patches: all the
\* patches of a path are applied, in order, to the base content; an empty
\* result is left out only when the base had no such file.
apply_by_path(registry, file_map, merged_patches, k) ==
  IF k > Len(Paths) THEN [ok |-> TRUE, err |-> "", tree |-> file_map]
  ELSE IF patches_at(merged_patches, Paths[k]) = <<>>
    THEN apply_by_path(registry, file_map, merged_patches, k + 1)
  ELSE IF ~registry_get(registry, patches_at(merged_patches, Paths[k])[1].codec_id)
    THEN [ok |-> FALSE, err |-> "CodecNotFound", tree |-> file_map]
  ELSE path_patched(registry, file_map, merged_patches, k, Paths[k],
                    apply_patches(content_at(file_map, Paths[k]),
                                  patches_at(merged_patches, Paths[k]), 1))
path_patched(registry, file_map, merged_patches, k, path, content) ==
  IF ~content.ok THEN [ok |-> FALSE, err |-> "ApplyFailed", tree |-> file_map]
  ELSE IF content.data = <<>> /\ path \notin DOMAIN file_map
    THEN apply_by_path(registry, file_map, merged_patches, k + 1)
  ELSE apply_by_path(registry,
                     [p \in DOMAIN file_map \cup {path} |->
                        IF p = path THEN content.data ELSE file_map[p]],
                     merged_patches, k + 1)

\* add_unique_files: the files of a side that neither the base tree nor the
\* map built so far has.
add_unique_files(side_tree, base_tree, file_map) ==
  [p \in DOMAIN file_map \cup (DOMAIN side_tree \ DOMAIN base_tree) |->
     IF p \in DOMAIN file_map THEN file_map[p] ELSE side_tree[p]]

with_unique_files(base_tree, left_tree, right_tree, patched) ==
  IF ~patched.ok THEN patched
  ELSE [patched EXCEPT !.tree = add_unique_files(right_tree, base_tree,
                                  add_unique_files(left_tree, base_tree, patched.tree))]
build_merged_tree(registry, base_tree, left_tree, right_tree, merged_patches) ==
  with_unique_files(base_tree, left_tree, right_tree,
                    apply_by_path(registry, base_tree, merged_patches, 1))

EmptyTree == [p \in {} |-> <<>>]

\* A mutant of conflicted_tree: a conflicted merge revision gets no files.
conflicted_tree_empty(left_tree) == EmptyTree
\* The tree of a conflicted merge revision is the left tree as it is.
conflicted_tree(left_tree) == left_tree

NoRevision == [parents |-> <<>>, patches |-> <<>>, tree |-> EmptyTree]
MergeFailed(err) ==
  [ok |-> FALSE, err |-> err, revision |-> NoRevision, new_patches |-> <<>>,
   conflicts |-> <<>>, ancestor |-> None]

\* The end of merge: the tree, and the revision.
merge_revision(left_head, right_head, ancestor, left_tree, groups, built) ==
  IF groups.conflicts = <<>> /\ ~built.ok THEN MergeFailed(built.err)
  ELSE [ok |-> TRUE, err |-> "",
        revision |-> [parents |-> <<left_head, right_head>>,
                      patches |-> groups.merged_patches,
                      tree |-> IF groups.conflicts = <<>> THEN built.tree
                               ELSE conflicted_tree(left_tree)],
        new_patches |-> groups.merged_patches,
        conflicts |-> groups.conflicts,
        ancestor |-> ancestor]

merge_trees(revs, registry, left_head, right_head, ancestor, groups) ==
  merge_revision(left_head, right_head, ancestor, revs[left_head].tree, groups,
                 build_merged_tree(registry, revs[ancestor].tree, revs[left_head].tree,
                                   revs[right_head].tree, groups.merged_patches))

\* Steps 3 and 4 of merge, on the patches of both sides.
merge_patches(revs, registry, left_head, right_head, ancestor, left_patches, right_patches) ==
  merge_trees(revs, registry, left_head, right_head, ancestor,
              merge_groups(revs, registry, ancestor, left_head, right_head,
                           left_patches, right_patches,
                           sorted_keys(group_keys(left_patches) \cup group_keys(right_patches))))

\* Step 2 of merge, from the ancestor found.
merge_from(revs, registry, left_head, right_head, ancestor) ==
  IF ancestor = None THEN MergeFailed("NoCommonAncestor")
  ELSE merge_patches(revs, registry, left_head, right_head, ancestor,
                     collect_patches(revs, ancestor, left_head),
                     collect_patches(revs, ancestor, right_head))

merge(revs, store, registry, left_head, right_head) ==
  merge_from(revs, registry, left_head, right_head, find_lca(store, left_head, right_head))

\* The files the repositories hold: f.txt, of the ancestor, with up to three
\* lines, and g.txt, which the ancestor lacks, with one.
FileF == {Bytes(<<"a">>), Bytes(<<"x">>), Bytes(<<"a", "b", "c">>),
          Bytes(<<"x", "c">>), Bytes(<<"a", "b", "z">>)}
FileG == {Bytes(<<"x">>), Bytes(<<"y">>)}
TreesOf(f, g) ==
  {[p \in {"f.txt", "g.txt"} |-> IF p = "f.txt" THEN cf ELSE cg] : cf \in f, cg \in g}
  \cup {[p \in {"f.txt"} |-> cf] : cf \in f}
  \cup {[p \in {"g.txt"} |-> cg] : cg \in g}
  \cup {EmptyTree}
BaseTrees == {EmptyTree} \cup {[p \in {"f.txt"} |-> cf] : cf \in {Bytes(<<"a">>), Bytes(<<"a", "b", "c">>)}}
WorkTrees == TreesOf(FileF, FileG)

\* A mutant of conflicts_is_empty: integrate takes every merge for clean.
conflicts_ignored(conflicts) == TRUE
\* result.conflicts.is_empty()
conflicts_is_empty(conflicts) == conflicts = <<>>

\* claw snapshot on the branch branch_ref, the worktree holding new_tree: a
\* revision on top of the branch's tip with one patch per changed file, and
\* the branch moved to it.  Without changes nothing is written.  (R2 is the
\* revision snapshotted on heads/main, R3 the one on heads/dev.)
Snapshot(branch_ref, new_tree) ==
  /\ mrg.pc = "ready"
  /\ locRefs[branch_ref] = R1
  /\ LET old_tip == locRefs[branch_ref]
         old_tree == mrg.revs[old_tip].tree
         changes == diff_trees(old_tree, new_tree)
         rev_id == IF branch_ref = "heads/main" THEN R2 ELSE R3
         cas == update_ref_cas(locObjects \cup {rev_id}, locRefs, locReflog,
                               branch_ref, old_tip, rev_id)
     IN /\ changes # <<>>
        /\ \A p \in PathSet : DiffDetermined(content_at(old_tree, p), content_at(new_tree, p))
        /\ cas.ok
        /\ mrg' = [mrg EXCEPT !.revs =
                     [id \in DOMAIN mrg.revs \cup {rev_id} |->
                        IF id = rev_id
                          THEN [patches |-> snapshot_patches(old_tree, new_tree, changes, 1),
                                tree |-> new_tree]
                        ELSE mrg.revs[id]]]
        /\ locObjects' = locObjects \cup {rev_id}
        /\ locRefs' = cas.refs
        /\ locReflog' = cas.reflog
  /\ UNCHANGED <<srvVars, task, calls, netVars, pushLog, locHead, cli, cdc, subVars>>

\* No MERGE_STATE.toml exists.
NoMergeState ==
  [exists |-> FALSE, left_ref |-> "", right_ref |-> "", left_revision |-> None,
   right_revision |-> None, base_revision |-> None, conflicts |-> <<>>]

\* No merge has been completed by snapshot.
NoCompletion ==
  [branch_ref |-> "", old_tip |-> None, parents |-> <<>>, conflicts |-> <<>>,
   left_ref |-> "", refs0 |-> <<>>]

\* The MERGE_STATE.toml integrate writes after a conflicted merge: the two
\* refs, the revisions they had, and one entry per conflict.
merge_state_of(left_ref, right_ref, left_id, right_id, result) ==
  [exists |-> TRUE, left_ref |-> left_ref, right_ref |-> right_ref,
   left_revision |-> left_id, right_revision |-> right_id,
   base_revision |-> result.ancestor,
   conflicts |-> [i \in 1..Len(result.conflicts) |->
                    [file_path |-> result.conflicts[i].file_path,
                     codec_id |-> result.conflicts[i].codec_id]]]

\* claw integrate --left left_ref --right right_ref: the merge with the
\* default registry; a clean merge revision is stored and the left ref moved
\* to it (update_ref_cas from the id just read, which is the revision's first
\* parent); a conflicted one leaves MERGE_STATE.toml and moves nothing; an
\* error of merge ends the command.
Integrate(left_ref, right_ref) ==
  /\ mrg.pc = "ready"
  /\ locRefs[left_ref] # None
  /\ locRefs[right_ref] # None
  /\ \E result \in {merge(mrg.revs, locObjects, DefaultRegistry,
                           locRefs[left_ref], locRefs[right_ref])} :
       \E clean \in {result.ok /\ conflicts_is_empty(result.conflicts)} :
         /\ mrg' = [mrg EXCEPT !.pc = IF ~result.ok THEN "failed"
                                      ELSE IF clean THEN "integrated" ELSE "conflicted",
                               !.cmd = "integrate", !.registry = DefaultRegistry,
                               !.left = locRefs[left_ref], !.right = locRefs[right_ref],
                               !.result = result, !.refs0 = locRefs,
                               !.stored = IF result.ok THEN Range(result.conflicts) ELSE {},
                               !.ms = IF result.ok /\ ~clean
                                        THEN merge_state_of(left_ref, right_ref,
                                                            locRefs[left_ref],
                                                            locRefs[right_ref], result)
                                      ELSE @]
         /\ locObjects' = IF clean THEN locObjects \cup {RM} ELSE locObjects
         /\ locRefs' = IF clean THEN write_ref(locRefs, left_ref, RM) ELSE locRefs
         /\ locReflog' = IF clean
                           THEN [locReflog EXCEPT ![left_ref] =
                                   Append(@, <<locRefs[left_ref], RM>>)]
                         ELSE locReflog
  /\ UNCHANGED <<srvVars, task, calls, netVars, pushLog, locHead, cli, cdc, subVars>>

\* A caller of the library runs merge itself, with the registry it built.
MergeCall(registry, left_head, right_head) ==
  /\ mrg.pc = "ready"
  /\ left_head \in locObjects
  /\ right_head \in locObjects
  /\ \E result \in {merge(mrg.revs, locObjects, registry, left_head, right_head)} :
       mrg' = [mrg EXCEPT !.pc = IF result.ok THEN "merged" ELSE "failed",
                          !.cmd = "merge", !.registry = registry,
                          !.left = left_head, !.right = right_head,
                          !.result = result, !.refs0 = locRefs,
                          !.stored = IF result.ok THEN Range(result.conflicts) ELSE {}]
  /\ UNCHANGED <<srvVars, task, calls, netVars, pushLog, locObjects, locRefs, locReflog,
                 locHead, cli, cdc, subVars>>

InitMerge ==
  /\ srvObjects = {}
  /\ srvRefs = [n \in RefNames |-> None]
  /\ srvReflog = [n \in RefNames |-> <<>>]
  /\ srvLock = UnlockedStore
  /\ task = [c \in Clients |-> IdleTask]
  /\ calls = 0
  /\ QuietNet
  /\ locObjects = {R1}
  /\ locRefs = [n \in RefNames |-> R1]
  /\ locReflog = [n \in RefNames |-> <<>>]
  /\ locHead = "heads/main"
  /\ cli = NoCli
  /\ cdc = NoCodecCall
  /\ IdleSub
  /\ \E base_tree \in BaseTrees :
       mrg = [pc |-> "ready", cmd |-> "", registry |-> {}, left |-> None, right |-> None,
              revs |-> [id \in {R1} |-> [patches |-> <<>>, tree |-> base_tree]],
              result |-> MergeFailed(""), refs0 |-> locRefs, stored |-> {},
              ms |-> NoMergeState, completed |-> NoCompletion]

NextMerge ==
  \/ \E branch_ref \in RefNames, new_tree \in WorkTrees : Snapshot(branch_ref, new_tree)
  \/ \E left_ref, right_ref \in RefNames : Integrate(left_ref, right_ref)
  \/ \E registry \in Registries, left_head, right_head \in RevIds :
       MergeCall(registry, left_head, right_head)

SpecMerge == InitMerge /\ [][NextMerge]_vars

\* ---------------------------------------------------------------------------
\* Claims about merge and integrate
\* ---------------------------------------------------------------------------

\* C12: a merge that produced at least one conflict is never advanced onto a
\* branch: after integrate reported conflicts, every ref has the value it
\* had when integrate started.
C12_ConflictedMergeMovesNoRef ==
  (mrg.cmd = "integrate" /\ mrg.result.ok /\ mrg.result.conflicts # <<>>)
    => locRefs = mrg.refs0

\* integrate met a conflict between two branches that both moved.
C12_Witness ==
  /\ mrg.cmd = "integrate"
  /\ mrg.pc = "conflicted"
  /\ mrg.result.conflicts # <<>>
  /\ mrg.refs0["heads/main"] = R2
  /\ mrg.refs0["heads/dev"] = R3

\* C13: for any two revisions that have a common ancestor, merge (with the
\* default registry) returns a merge revision and no error; patches that do
\* not commute or fail the three-way merge become Conflict objects.
C13_MergeAlwaysReturnsRevision ==
  (mrg.cmd # "" /\ mrg.registry = DefaultRegistry
     /\ find_lca(locObjects \ {RM}, mrg.left, mrg.right) # None)
    => mrg.result.ok

\* The merge that was run: its ancestor, the patches of both sides since
\* then, and the keys both sides changed.
Merged == mrg.cmd # "" /\ find_lca(locObjects \ {RM}, mrg.left, mrg.right) # None
MergedAncestor == find_lca(locObjects \ {RM}, mrg.left, mrg.right)
LeftPatches == collect_patches(mrg.revs, MergedAncestor, mrg.left)
RightPatches == collect_patches(mrg.revs, MergedAncestor, mrg.right)
BothChanged == group_keys(LeftPatches) \cap group_keys(RightPatches)
RebaseOf(key) ==
  commute_rebase(mrg.registry, key[2], group_of(LeftPatches, key), group_of(RightPatches, key))
FallbackOf(key) ==
  try_merge3_fallback(mrg.revs, mrg.registry, MergedAncestor, key[2], key[1],
                      group_of(LeftPatches, key), group_of(RightPatches, key))
\* The error of a group that is neither a commute failure nor, after one, a
\* merge3 failure; "" when it has none.
OtherErrorOf(key) ==
  IF RebaseOf(key).ok THEN ""
  ELSE IF RebaseOf(key).err # "CommuteFailed" THEN RebaseOf(key).err
  ELSE IF FallbackOf(key).ok \/ FallbackOf(key).err = "Merge3Failed" THEN ""
  ELSE FallbackOf(key).err

\* C14: during a merge only a commute failure triggers the merge3 fallback
\* and only a merge3 failure produces a Conflict; a group that meets any
\* other error (an unknown codec, a failed apply) makes merge return that
\* error.
C14_OtherErrorsPropagate ==
  Merged =>
    \A key \in BothChanged :
      OtherErrorOf(key) # "" => (~mrg.result.ok /\ mrg.result.err \in {OtherErrorOf(k) : k \in BothChanged})

\* C15: the revision merge(L, R) returns has the parents <<L, R>> in that
\* order, the merged patch ids as its patches, and as its tree the merged
\* tree when there is no conflict, L's tree when there is one.
C15_MergeRevisionShape ==
  (Merged /\ mrg.result.ok) =>
    /\ mrg.result.revision.parents = <<mrg.left, mrg.right>>
    /\ mrg.result.revision.patches = mrg.result.new_patches
    /\ mrg.result.revision.tree =
         IF mrg.result.conflicts = <<>>
           THEN build_merged_tree(mrg.registry, mrg.revs[MergedAncestor].tree,
                                  mrg.revs[mrg.left].tree, mrg.revs[mrg.right].tree,
                                  mrg.result.new_patches).tree
         ELSE mrg.revs[mrg.left].tree

\* A merge of two branches with a conflict in one file and a merged patch
\* for another, the left tree holding files.
C15_Witness ==
  /\ Merged
  /\ mrg.result.ok
  /\ mrg.left = R2
  /\ mrg.right = R3
  /\ mrg.result.conflicts # <<>>
  /\ mrg.result.new_patches # <<>>
  /\ mrg.revs[R2].tree # EmptyTree

\* The conflicts of the merge for one key, and the keys for which both the
\* commutation and the merge3 fallback failed.
ConflictsFor(key) ==
  {k \in 1..Len(mrg.result.conflicts) :
     mrg.result.conflicts[k].file_path = key[1] /\ mrg.result.conflicts[k].codec_id = key[2]}
BothFailed(key) == key \in BothChanged /\ ~RebaseOf(key).ok /\ ~FallbackOf(key).ok

\* C16: for each (path, codec) group changed on both sides whose commutation
\* and merge3 both fail, merge emits and stores exactly one open Conflict
\* naming the ancestor, both tips, the path, both sides' patch chains and no
\* resolution; every other group has none.
C16_OneOpenConflictPerFailedGroup ==
  Merged =>
    \A key \in group_keys(LeftPatches) \cup group_keys(RightPatches) :
      IF BothFailed(key)
        THEN /\ mrg.result.ok
             /\ Cardinality(ConflictsFor(key)) = 1
             /\ \A k \in ConflictsFor(key) :
                  /\ mrg.result.conflicts[k] =
                       [base_revision |-> MergedAncestor, left_revision |-> mrg.left,
                        right_revision |-> mrg.right, file_path |-> key[1],
                        codec_id |-> key[2],
                        left_patch_ids |-> group_of(LeftPatches, key),
                        right_patch_ids |-> group_of(RightPatches, key),
                        resolution_patch_ids |-> <<>>, status |-> "open"]
                  /\ mrg.result.conflicts[k] \in mrg.stored
      ELSE ConflictsFor(key) = {}

\* A merge in which one file conflicts and another, changed on both sides as
\* well, does not.
C16_Witness ==
  /\ Merged
  /\ mrg.result.ok
  /\ \E key \in BothChanged : BothFailed(key) /\ group_of(LeftPatches, key) # group_of(RightPatches, key)
  /\ \E key \in BothChanged : ~BothFailed(key)

\* The paths both sides added with different bytes: absent from the
\* ancestor's tree, present in both tips' trees, not equal.
BothAddedDifferently ==
  {p \in PathSet :
     /\ p \notin DOMAIN mrg.revs[MergedAncestor].tree
     /\ p \in DOMAIN mrg.revs[mrg.left].tree
     /\ p \in DOMAIN mrg.revs[mrg.right].tree
     /\ mrg.revs[mrg.left].tree[p] # mrg.revs[mrg.right].tree[p]}

\* C17: when both sides added the same path with different bytes, a merge
\* that returns reports a conflict for that path; it produces no merged tree
\* for it silently.
C17_BothAddedConflicts ==
  (Merged /\ mrg.registry = DefaultRegistry /\ mrg.result.ok) =>
    \A p \in BothAddedDifferently :
      \E k \in 1..Len(mrg.result.conflicts) : mrg.result.conflicts[k].file_path = p

\* C18: when only one side changed files since the common ancestor (the
\* other tip is the ancestor itself), integrating gives a merge without
\* conflicts whose tree is the ancestor's tree with that side's file changes
\* applied, which is the tree that side snapshotted.
C18_OneSidedMergeTakesThatSide ==
  (Merged /\ mrg.cmd = "integrate" /\ mrg.left # mrg.right
     /\ MergedAncestor \in {mrg.left, mrg.right}) =>
    /\ mrg.result.ok
    /\ mrg.result.conflicts = <<>>
    /\ mrg.result.revision.tree =
         mrg.revs[IF MergedAncestor = mrg.left THEN mrg.right ELSE mrg.left].tree

\* ---------------------------------------------------------------------------
\* The codec laws: a caller diffs two texts, applies the patch, and applies
\* its inverse.
\* ---------------------------------------------------------------------------

MaxLines == 2
LineChars == {"a", "b", "x"}

\* The texts of up to MaxLines different one-character lines, with or
\* without a final line feed.
LineSeqs == {q \in UNION {[1..n -> LineChars] : n \in 0..MaxLines} : Distinct(q)}
TextOf(q, nl) ==
  LET body == join([k \in 1..Len(q) |-> <<q[k]>>], <<NL>>)
  IN IF nl /\ q # <<>> THEN body \o <<NL>> ELSE body
Texts == {TextOf(q, nl) : q \in LineSeqs, nl \in BOOLEAN}

NoOutput == [ok |-> FALSE, data |-> <<>>]

CodecDiff ==
  /\ cdc.pc = "input"
  /\ cdc' = [cdc EXCEPT !.pc = "diffed", !.p = diff(cdc.b, cdc.b2)]
  /\ UNCHANGED <<srvVars, task, calls, netVars, pushLog, locObjects, locRefs, locReflog,
                 locHead, cli, mrg, subVars>>

CodecApply ==
  /\ cdc.pc = "diffed"
  /\ cdc' = [cdc EXCEPT !.pc = "applied", !.out = apply(cdc.b, cdc.p)]
  /\ UNCHANGED <<srvVars, task, calls, netVars, pushLog, locObjects, locRefs, locReflog,
                 locHead, cli, mrg, subVars>>

CodecInvert ==
  /\ cdc.pc = "applied"
  /\ cdc.out.ok
  /\ cdc' = [cdc EXCEPT !.pc = "inverted", !.back = apply(cdc.out.data, invert(cdc.p))]
  /\ UNCHANGED <<srvVars, task, calls, netVars, pushLog, locObjects, locRefs, locReflog,
                 locHead, cli, mrg, subVars>>

NoCommute == [ok |-> FALSE, right |-> <<>>, left |-> <<>>]

\* apply(apply(base, first), second): the second patch on the result of the
\* first, when the first applied.
apply_second(r, second) == IF r.ok THEN apply(r.data, second) ELSE r
apply_both(base, first, second) == apply_second(apply(base, first), second)

\* The two sides of the commute law for the outcome c of commute(left, right).
commute_call(pc, base, b3, left, right, c) ==
  [pc EXCEPT !.pc = "commuted", !.b3 = b3, !.left = left, !.right = right, !.commuted = c,
             !.in_order = apply_both(base, left, right),
             !.swapped = IF c.ok THEN apply_both(base, c.right, c.left)
                         ELSE NoOutput]

\* commute(L, R) for L the diff of b and b2 and R a diff towards a third
\* text, taken from the result of L (R follows L) or from b (R beside L).
CodecCommute ==
  /\ cdc.pc = "input"
  /\ \E b3 \in Texts, r_base \in {cdc.b, cdc.b2} :
       /\ DiffDetermined(r_base, b3)
       /\ \E left \in {diff(cdc.b, cdc.b2)}, right \in {diff(r_base, b3)} :
            cdc' = commute_call(cdc, cdc.b, b3, left, right, commute(left, right))
  /\ UNCHANGED <<srvVars, task, calls, netVars, pushLog, locObjects, locRefs, locReflog,
                 locHead, cli, mrg, subVars>>

\* merge3(base, left, right) for the base b, the left text b2 and a third
\* text as the right one.
CodecMerge3 ==
  /\ cdc.pc = "input"
  /\ \E b3 \in Texts :
       /\ DiffDetermined(cdc.b, b3)
       /\ cdc' = [cdc EXCEPT !.pc = "merged", !.b3 = b3,
                             !.left = diff(cdc.b, cdc.b2), !.right = diff(cdc.b, b3),
                             !.merged = merge3(cdc.b, cdc.b2, b3)]
  /\ UNCHANGED <<srvVars, task, calls, netVars, pushLog, locObjects, locRefs, locReflog,
                 locHead, cli, mrg, subVars>>

InitCodec ==
  /\ srvObjects = {}
  /\ srvRefs = [n \in RefNames |-> None]
  /\ srvReflog = [n \in RefNames |-> <<>>]
  /\ srvLock = UnlockedStore
  /\ task = [c \in Clients |-> IdleTask]
  /\ calls = 0
  /\ QuietNet
  /\ locObjects = {}
  /\ locRefs = [n \in RefNames |-> None]
  /\ locReflog = [n \in RefNames |-> <<>>]
  /\ locHead = ""
  /\ cli = NoCli
  /\ mrg = NoMerge
  /\ IdleSub
  /\ \E b \in Texts, b2 \in Texts :
       /\ DiffDetermined(b, b2)
       /\ cdc = [pc |-> "input", b |-> b, b2 |-> b2, p |-> <<>>,
                 out |-> NoOutput, back |-> NoOutput,
                 b3 |-> <<>>, left |-> <<>>, right |-> <<>>, commuted |-> NoCommute,
                 in_order |-> NoOutput, swapped |-> NoOutput, merged |-> NoOutput]

NextCodec == CodecDiff \/ CodecApply \/ CodecInvert \/ CodecCommute \/ CodecMerge3

SpecCodec == InitCodec /\ [][NextCodec]_vars

\* C19: round trip: apply(b, diff(b, b2)) succeeds and is byte-identical to
\* b2, for all texts b and b2.
C19_RoundTrip ==
  cdc.pc \in {"applied", "inverted"} => (cdc.out.ok /\ cdc.out.data = cdc.b2)

\* C20: invert: for a text b and a patch p whose addresses are well-formed
\* on b (the diff of b and another text, with one op or several), applying p
\* and then invert(p) succeeds and gives back b, byte for byte.
C20_InvertUndoes ==
  cdc.pc = "inverted" => (cdc.back.ok /\ cdc.back.data = cdc.b)

\* C21: commute law: whenever commute(L, R) succeeds with (R2, L2) and L then
\* R apply to the base, R2 then L2 apply too and give the same bytes.
C21_CommuteLaw ==
  (cdc.pc = "commuted" /\ cdc.commuted.ok /\ cdc.in_order.ok)
    => (cdc.swapped.ok /\ cdc.swapped.data = cdc.in_order.data)

\* The base lines (0-based) an op of a diff changes: those it deletes or
\* replaces.
changed_by(op) ==
  IF op.op_type = "insert" THEN {}
  ELSE op.address .. (op.address + Len(lines(op.old_data)) - 1)

\* Some base line is changed by both sides, and not by the same change.
ChangedDifferently(left, right) ==
  \E k \in 1..Len(left), m \in 1..Len(right) :
    /\ changed_by(left[k]) \cap changed_by(right[m]) # {}
    /\ left[k] # right[m]

\* C22: merge3 resolves every base line by who changed it: with no change on
\* the right the result is the left text, with no change on the left it is
\* the right text, and a base line that both sides changed differently, be it
\* the first line of a change or a later one, makes merge3 fail.
C22_Merge3ByLine ==
  cdc.pc = "merged" =>
    /\ cdc.b3 = cdc.b => (cdc.merged.ok /\ cdc.merged.data = cdc.b2)
    /\ cdc.b2 = cdc.b => (cdc.merged.ok /\ cdc.merged.data = cdc.b3)
    /\ ChangedDifferently(cdc.left, cdc.right) => ~cdc.merged.ok

\* ------------------------------------------- functions on the revision graph

\* The stores a walk may meet: any part of the longer history.
GraphStores == SUBSET GraphIds

NoPatches == <<>>

\* is_ancestor(store, a, d) of claw-sync.
IsAncestorCall ==
  /\ gr.pc = "input"
  /\ gr' = [gr EXCEPT !.pc = "is_ancestor",
                      !.result = is_ancestor(gr.store, gr.a, gr.d)]
  /\ UNCHANGED <<srvVars, task, calls, netVars, pushLog, locVars, evt, cap, ws>>

\* find_lca(store, left, right) of claw-merge, for left = a and right = d.
FindLcaCall ==
  /\ gr.pc = "input"
  /\ gr' = [gr EXCEPT !.pc = "find_lca", !.lca = find_lca(gr.store, gr.a, gr.d)]
  /\ UNCHANGED <<srvVars, task, calls, netVars, pushLog, locVars, evt, cap, ws>>

\* The patches of the revisions of the longer history: one each, two for R4.
GraphRevs ==
  [id \in GraphIds |->
     [patches |-> IF id = R4 THEN <<[rev |-> id, k |-> 1], [rev |-> id, k |-> 2]>>
                  ELSE <<[rev |-> id, k |-> 1]>>]]

\* Steps 1 to 3 of merge for left = a and right = d in a store that holds
\* their whole history: the ancestor, then the patches of either side.
CollectPatchesCall ==
  /\ gr.pc = "input"
  /\ \A id \in GraphIds :
       (is_ancestor(GraphIds, id, gr.a) \/ is_ancestor(GraphIds, id, gr.d)) => id \in gr.store
  /\ \E ancestor \in {find_lca(gr.store, gr.a, gr.d)} :
       /\ ancestor # None
       /\ gr' = [gr EXCEPT !.pc = "collected", !.lca = ancestor,
                           !.patches = <<collect_patches(GraphRevs, ancestor, gr.a),
                                         collect_patches(GraphRevs, ancestor, gr.d)>>]
  /\ UNCHANGED <<srvVars, task, calls, netVars, pushLog, locVars, evt, cap, ws>>

InitGraph ==
  /\ srvObjects = {}
  /\ srvRefs = [n \in RefNames |-> None]
  /\ srvReflog = [n \in RefNames |-> <<>>]
  /\ srvLock = UnlockedStore
  /\ task = [c \in Clients |-> IdleTask]
  /\ calls = 0
  /\ QuietNet
  /\ locObjects = {}
  /\ locRefs = [n \in RefNames |-> None]
  /\ locReflog = [n \in RefNames |-> <<>>]
  /\ locHead = ""
  /\ cli = NoCli
  /\ cdc = NoCodecCall
  /\ mrg = NoMerge
  /\ evt = NoSubscription
  /\ cap = NoCapsule
  /\ ws = NoWorkstream
  /\ \E store \in GraphStores, a \in GraphIds, d \in GraphIds :
       gr = [pc |-> "input", store |-> store, a |-> a, d |-> d, result |-> FALSE,
             lca |-> None, patches |-> <<NoPatches, NoPatches>>]

NextGraph == IsAncestorCall \/ FindLcaCall \/ CollectPatchesCall

SpecGraph == InitGraph /\ [][NextGraph]_vars

RECURSIVE ancestors_in(_, _)
\* The revisions reached from those of S by following the parent edges of
\* the revisions the store holds, S included.
ancestors_in(store, S) ==
  LET next == S \cup UNION {Range(parents(x)) : x \in S \cap store}
  IN IF next = S THEN S ELSE ancestors_in(store, next)

\* C23: is_ancestor(a, d) is true exactly when a is d or is reached from d
\* by following parent edges.
C23_IsAncestorIsReachability ==
  gr.pc = "is_ancestor" => (gr.result <=> gr.a \in ancestors_in(gr.store, {gr.d}))

\* A revision two parent edges away, through a merge, is found.
C23_Witness ==
  /\ gr.pc = "is_ancestor"
  /\ gr.a = R2 /\ gr.d = R5 /\ {R4, R5} \subseteq gr.store
  /\ gr.result

\* ------------------------------------------------------ event subscriptions

\* SubscribeRequest.event_types: none (every event), or some of the types.
EventTypeSets == {{}, {"ref_created"}, {"ref_updated", "ref_deleted"}}
\* SubscribeRequest.ref_prefix: a directory of refs.
RefPrefixes == {"heads", "tags"}
\* The targets the refs of the server take.
EventIds == {R1, R2}

\* ClawStore::list_refs(prefix): the refs below the directory `prefix`, as
\* name -> id with None for a name that is not listed.
list_refs(refs, prefix) ==
  [n \in RefNames |-> IF proper_prefix(<<prefix>>, ref_path(n)) THEN refs[n] ELSE None]

\* The differences of a listing from the one before: one event each.
differences(known_refs, current_refs) ==
  {[event_type |-> "ref_created", ref_name |-> n, object_id |-> current_refs[n]] :
     n \in {m \in RefNames : known_refs[m] = None /\ current_refs[m] # None}}
  \cup
  {[event_type |-> "ref_updated", ref_name |-> n, object_id |-> current_refs[n]] :
     n \in {m \in RefNames : known_refs[m] # None /\ current_refs[m] # None
                              /\ known_refs[m] # current_refs[m]}}
  \cup
  {[event_type |-> "ref_deleted", ref_name |-> n, object_id |-> None] :
     n \in {m \in RefNames : known_refs[m] # None /\ current_refs[m] = None}}

\* A mutant of wanted: the subscription gets the events of every type.
wanted_all(event_types, event_type) == TRUE

\* The filter of both loops: !event_types.is_empty() && no type matches
\* skips the event.
wanted(event_types, event_type) == event_types = {} \/ event_type \in event_types

evtOthers == <<srvObjects, srvReflog, srvLock, task, calls, netVars, pushLog, locVars, gr,
               cap, ws>>

\* subscribe: the handler spawns the polling task and returns the stream.
Subscribe(event_types, ref_prefix) ==
  /\ evt.pc = "idle"
  /\ evt' = [evt EXCEPT !.pc = "seed", !.event_types = event_types,
                        !.ref_prefix = ref_prefix, !.connected = TRUE]
  /\ UNCHANGED <<srvRefs, evtOthers>>

\* The task seeds known_refs with the current refs.
EventSeed ==
  /\ evt.pc = "seed"
  /\ read_free(srvLock)
  /\ evt' = [evt EXCEPT !.pc = "sleep",
                        !.known_refs = list_refs(srvRefs, evt.ref_prefix),
                        !.listed = list_refs(srvRefs, evt.ref_prefix)]
  /\ UNCHANGED <<srvRefs, evtOthers>>

\* After the sleep the task lists the refs; the two loops then go through
\* the changed names and the removed ones.
EventPoll ==
  /\ evt.pc = "sleep"
  /\ read_free(srvLock)
  /\ \E current_refs \in {list_refs(srvRefs, evt.ref_prefix)} :
       evt' = [evt EXCEPT !.pc = "send", !.current_refs = current_refs,
                          !.changed = {n \in RefNames : current_refs[n] # None
                                                       /\ evt.known_refs[n] # current_refs[n]},
                          !.before = evt.listed, !.listed = current_refs,
                          !.round = <<>>, !.polls = 1]
  /\ UNCHANGED <<srvRefs, evtOthers>>

\* One pass of the first loop that finds a changed ref: the event is skipped
\* by the filter, or sent, or the send fails and the task returns.
EventChanged(name) ==
  /\ evt.pc = "send"
  /\ name \in evt.changed
  /\ \E event \in {[event_type |-> IF evt.known_refs[name] # None THEN "ref_updated"
                                    ELSE "ref_created",
                     ref_name |-> name, object_id |-> evt.current_refs[name]]} :
       IF ~wanted(evt.event_types, event.event_type)
         THEN evt' = [evt EXCEPT !.known_refs[name] = evt.current_refs[name],
                                 !.changed = @ \ {name}]
       ELSE IF ~evt.connected
         THEN evt' = [evt EXCEPT !.pc = "done"]
       ELSE evt' = [evt EXCEPT !.known_refs[name] = evt.current_refs[name],
                               !.changed = @ \ {name},
                               !.round = Append(@, event)]
  /\ UNCHANGED <<srvRefs, evtOthers>>

\* One pass of the second loop, over the known names that are not listed.
EventRemoved(name) ==
  /\ evt.pc = "send"
  /\ evt.changed = {}
  /\ evt.known_refs[name] # None
  /\ evt.current_refs[name] = None
  /\ IF ~wanted(evt.event_types, "ref_deleted")
       THEN evt' = [evt EXCEPT !.known_refs[name] = None]
     ELSE IF ~evt.connected
       THEN evt' = [evt EXCEPT !.pc = "done"]
     ELSE evt' = [evt EXCEPT !.known_refs[name] = None,
                             !.round = Append(@, [event_type |-> "ref_deleted",
                                                  ref_name |-> name, object_id |-> None])]
  /\ UNCHANGED <<srvRefs, evtOthers>>

\* Both loops are through: the task sleeps again.
EventSleep ==
  /\ evt.pc = "send"
  /\ evt.changed = {}
  /\ \A n \in RefNames : evt.known_refs[n] # None => evt.current_refs[n] # None
  /\ evt' = [evt EXCEPT !.pc = "sleep"]
  /\ UNCHANGED <<srvRefs, evtOthers>>

\* The client drops the stream.
Disconnect ==
  /\ evt.pc \in {"seed", "sleep", "send"}
  /\ evt.connected
  /\ evt' = [evt EXCEPT !.connected = FALSE]
  /\ UNCHANGED <<srvRefs, evtOthers>>

\* Another handler of the server writes or deletes a ref.
RefChange(name, target) ==
  /\ evt.pc # "idle"
  /\ srvRefs[name] # target
  /\ srvRefs' = [srvRefs EXCEPT ![name] = target]
  /\ UNCHANGED <<evt, evtOthers>>

InitEvents ==
  /\ srvObjects = {}
  /\ srvRefs \in [RefNames -> EventIds \cup {None}]
  /\ srvReflog = [n \in RefNames |-> <<>>]
  /\ srvLock = UnlockedStore
  /\ task = [c \in Clients |-> IdleTask]
  /\ calls = 0
  /\ QuietNet
  /\ locObjects = {}
  /\ locRefs = [n \in RefNames |-> None]
  /\ locReflog = [n \in RefNames |-> <<>>]
  /\ locHead = ""
  /\ cli = NoCli
  /\ cdc = NoCodecCall
  /\ mrg = NoMerge
  /\ gr = NoGraphCall
  /\ cap = NoCapsule
  /\ ws = NoWorkstream
  /\ evt = [pc |-> "idle", event_types |-> {}, ref_prefix |-> "", connected |-> FALSE,
            known_refs |-> [n \in RefNames |-> None],
            current_refs |-> [n \in RefNames |-> None],
            changed |-> {}, listed |-> [n \in RefNames |-> None],
            before |-> [n \in RefNames |-> None], round |-> <<>>, polls |-> 0]

NextEvents ==
  \/ \E event_types \in EventTypeSets, ref_prefix \in RefPrefixes :
       Subscribe(event_types, ref_prefix)
  \/ EventSeed
  \/ EventPoll
  \/ \E name \in RefNames : EventChanged(name)
  \/ \E name \in RefNames : EventRemoved(name)
  \/ EventSleep
  \/ Disconnect
  \/ \E name \in RefNames, target \in EventIds \cup {None} : RefChange(name, target)

SpecEvents == InitEvents /\ [][NextEvents]_vars

\* A poll is through: both loops ran to their end.
PollDone == evt.pc = "sleep" /\ evt.polls > 0

\* C24 as stated: at the end of a poll the events sent in it are exactly
\* the differences of the listing from the listing of the poll before, one
\* event each.
C24_OneEventPerDifference ==
  PollDone =>
    /\ Range(evt.round) = differences(evt.before, evt.listed)
    /\ Len(evt.round) = Cardinality(differences(evt.before, evt.listed))

\* C24, amended: at the end of a poll the events sent in it are exactly
\* the differences, of the types the subscription asked for, of the listing
\* from the listing of the poll before, one event each.
C24_OneEventPerWantedDifference ==
  PollDone =>
    /\ Range(evt.round) = {e \in differences(evt.before, evt.listed) :
                             evt.event_types = {} \/ e.event_type \in evt.event_types}
    /\ Len(evt.round) = Cardinality(Range(evt.round))

\* A poll that found a created, an updated or a deleted ref and sent two
\* events.
C24_Witness ==
  /\ PollDone
  /\ Len(evt.round) = 2
  /\ \E k \in 1..2 : evt.round[k].event_type = "ref_deleted"

\* The polling task is scheduled whenever it can take a step: its sleep
\* ends, the read lock is granted, a send to the channel returns.
SpecEventsLive ==
  /\ SpecEvents
  /\ WF_vars(EventSeed)
  /\ WF_vars(EventPoll)
  /\ WF_vars(\E name \in RefNames : EventChanged(name))
  /\ WF_vars(\E name \in RefNames : EventRemoved(name))
  /\ WF_vars(EventSleep)

\* C25: after the client has disconnected, the polling task of its
\* subscription eventually terminates.
C25_DisconnectedTaskTerminates ==
  (evt.pc \in {"seed", "sleep", "send"} /\ ~evt.connected) ~> (evt.pc = "done")

\* ------------------------------------------------------ claims about clone

\* C26: after a clone HEAD points to heads/main if the remote advertised
\* it, and otherwise to the first advertised ref.
C26_CloneHead ==
  (cli.cmd = "clone" /\ cli.pc = "finished" /\ cli.remote_refs # <<>>)
    => IF \E i \in 1..Len(cli.remote_refs) : cli.remote_refs[i][1] = "heads/main"
         THEN locHead = "heads/main"
       ELSE locHead = cli.remote_refs[1][1]

\* ------------------------------------------------------------------ capsules

\* Ed25519 key pairs, named by their public keys.
Keys == {"k1", "k2"}
\* CapsulePublic values, and encrypted private blobs (NoBlob: none).
PublicFields == {"agent-a", "agent-b"}
NoBlob == ""
Blobs == {NoBlob, "enc1", "enc2"}
CapsuleRevs == {R1, R2}

\* The signing payload: revision_id || blake3(public_fields) ||
\* blake3(encrypted_private) when there is one.  The hashes are taken to be
\* free of collisions: a payload stands for the fields it was made of.
sign_payload(revision_id, public_fields, encrypted_private) ==
  IF encrypted_private = NoBlob THEN <<revision_id, public_fields>>
  ELSE <<revision_id, public_fields, encrypted_private>>

\* sign::sign: an Ed25519 signature stands for the key and the data it was
\* made with; verify::verify accepts exactly the signatures of the key's
\* secret half over the same data.
sign(key, data) == [signer_id |-> key, signed |-> data]
verify(public_key, data, signature) ==
  signature.signer_id = public_key /\ signature.signed = data

\* build_capsule
build_capsule(revision_id, public_fields, encrypted_private, signing_keypair) ==
  [revision_id |-> revision_id, public_fields |-> public_fields,
   encrypted_private |-> encrypted_private,
   signatures |-> <<sign(signing_keypair,
                         sign_payload(revision_id, public_fields, encrypted_private))>>]

\* verify_capsule: an error without a signature, else the verdict of verify
\* on the first signature.
verify_capsule(capsule, public_key) ==
  IF capsule.signatures = <<>> THEN [ok |-> FALSE, valid |-> FALSE]
  ELSE [ok |-> TRUE,
        valid |-> verify(public_key,
                         sign_payload(capsule.revision_id, capsule.public_fields,
                                      capsule.encrypted_private),
                         capsule.signatures[1])]

\* CapsuleService::verify on the capsule stored for the revision of the
\* request: valid when the capsule carries a signature.
service_verify(capsule) ==
  [ok |-> TRUE, valid |-> capsule.signatures # <<>>]

capOthers == <<srvVars, task, calls, netVars, pushLog, locVars, gr, evt, ws>>

\* A capsule is built and signed, and stored for its revision.
BuildCapsule(revision_id, public_fields, encrypted_private, key) ==
  /\ cap.pc = "start"
  /\ cap' = [cap EXCEPT !.pc = "built", !.signer = key,
                        !.capsule = build_capsule(revision_id, public_fields,
                                                  encrypted_private, key)]
  /\ UNCHANGED capOthers

\* The capsules that differ from a capsule in one field: another revision
\* id, other public fields, another blob, or other signatures (none, or the
\* signature of another key over the same payload).
altered(capsule) ==
  ({[capsule EXCEPT !.revision_id = r] : r \in CapsuleRevs}
   \cup {[capsule EXCEPT !.public_fields = f] : f \in PublicFields}
   \cup {[capsule EXCEPT !.encrypted_private = b] : b \in Blobs}
   \cup {[capsule EXCEPT !.signatures = <<>>]}
   \cup {[capsule EXCEPT !.signatures = <<[@[1] EXCEPT !.signer_id = k]>>] : k \in Keys})
  \ {capsule}

\* The stored capsule is altered after signing.
AlterCapsule ==
  /\ cap.pc = "built"
  /\ \E c \in altered(cap.capsule) : cap' = [cap EXCEPT !.pc = "altered", !.capsule = c]
  /\ UNCHANGED capOthers

\* The capsule is verified against a public key, by the library and by a
\* verify request to the capsule service.
VerifyCapsule(public_key) ==
  /\ cap.pc \in {"built", "altered"}
  /\ cap' = [cap EXCEPT !.pc = "verified", !.was = cap.pc, !.public_key = public_key,
                        !.library = verify_capsule(cap.capsule, public_key),
                        !.service = service_verify(cap.capsule)]
  /\ UNCHANGED capOthers

NoVerdict == [ok |-> FALSE, valid |-> FALSE]

InitCapsule ==
  /\ srvObjects = {}
  /\ srvRefs = [n \in RefNames |-> None]
  /\ srvReflog = [n \in RefNames |-> <<>>]
  /\ srvLock = UnlockedStore
  /\ task = [c \in Clients |-> IdleTask]
  /\ calls = 0
  /\ QuietNet
  /\ locObjects = {}
  /\ locRefs = [n \in RefNames |-> None]
  /\ locReflog = [n \in RefNames |-> <<>>]
  /\ locHead = ""
  /\ cli = NoCli
  /\ cdc = NoCodecCall
  /\ mrg = NoMerge
  /\ gr = NoGraphCall
  /\ evt = NoSubscription
  /\ ws = NoWorkstream
  /\ cap = [pc |-> "start", was |-> "", signer |-> "", public_key |-> "",
            capsule |-> [revision_id |-> None, public_fields |-> "",
                         encrypted_private |-> NoBlob, signatures |-> <<>>],
            library |-> NoVerdict, service |-> NoVerdict]

NextCapsule ==
  \/ \E revision_id \in CapsuleRevs, public_fields \in PublicFields,
        encrypted_private \in Blobs, key \in Keys :
       BuildCapsule(revision_id, public_fields, encrypted_private, key)
  \/ AlterCapsule
  \/ \E public_key \in Keys : VerifyCapsule(public_key)

SpecCapsule == InitCapsule /\ [][NextCapsule]_vars

\* The capsule carries a signature made by the key over the capsule's
\* current revision id, public fields and encrypted blob.
SignedBy(capsule, public_key) ==
  /\ capsule.signatures # <<>>
  /\ capsule.signatures[1] =
       sign(public_key, sign_payload(capsule.revision_id, capsule.public_fields,
                                     capsule.encrypted_private))

\* C27: verification against a public key reports the capsule valid if
\* and only if its signature was made by that key over its current fields,
\* by the library and by the verify request of the service alike.
C27_VerifyIffSigned ==
  cap.pc = "verified" =>
    /\ (cap.library.ok /\ cap.library.valid) <=> SignedBy(cap.capsule, cap.public_key)
    /\ (cap.service.ok /\ cap.service.valid) <=> SignedBy(cap.capsule, cap.public_key)

\* ------------------------------------------------- the tree a merge builds

\* File paths as the sequences of their characters; names hold no "/".
TreePaths == {<<"a">>, <<"a", "/", "b">>, <<"b">>, <<"c", "/", "a">>}
FileData == <<"x", NL>>

\* char order of the names' characters.
char_rank(c) == CASE c = "a" -> 1 [] c = "b" -> 2 [] c = "c" -> 3 [] OTHER -> 0

RECURSIVE name_less(_, _)
\* String::cmp on names: s < t.
name_less(s, t) ==
  IF t = <<>> THEN FALSE
  ELSE IF s = <<>> THEN TRUE
  ELSE IF Head(s) # Head(t) THEN char_rank(Head(s)) < char_rank(Head(t))
  ELSE name_less(Tail(s), Tail(t))

\* path.split_once('/'): the place of the first "/", 0 when there is none.
slash_at(path) ==
  IF \E k \in 1..Len(path) : path[k] = "/"
    THEN Min({k \in 1..Len(path) : path[k] = "/"}) ELSE 0
first_of(path) == SubSeq(path, 1, slash_at(path) - 1)
rest_of(path) == SubSeq(path, slash_at(path) + 1, Len(path))

RECURSIVE names_in_order(_)
RECURSIVE names_from(_, _)
\* The keys of a BTreeMap of names, in its order.
names_in_order(S) ==
  IF S = {} THEN <<>>
  ELSE names_from(S, CHOOSE m \in S : \A n \in S : n = m \/ name_less(m, n))
names_from(S, m) == <<m>> \o names_in_order(S \ {m})

RECURSIVE insert_by_name(_, _)
\* One step of the stable sort: e goes behind every entry that is not
\* greater than it.
insert_by_name(sorted, e) ==
  IF sorted = <<>> THEN <<e>>
  ELSE IF name_less(e.name, sorted[Len(sorted)].name)
    THEN Append(insert_by_name(SubSeq(sorted, 1, Len(sorted) - 1), e), sorted[Len(sorted)])
  ELSE Append(sorted, e)

RECURSIVE sort_by_name(_, _, _)
\* entries.sort_by(|a, b| a.name.cmp(&b.name)), a stable sort.
sort_by_name(entries, k, sorted) ==
  IF k > Len(entries) THEN sorted
  ELSE sort_by_name(entries, k + 1, insert_by_name(sorted, entries[k]))

entries_sorted(entries) == sort_by_name(entries, 1, <<>>)

RECURSIVE build_tree_from_flat(_)
RECURSIVE subtree_entry(_, _)
RECURSIVE tree_entries(_, _, _)
\* build_tree_from_flat: one Directory entry per first component, holding
\* the tree of the paths below it, then one entry per direct file; the
\* entries sorted by name.  A tree and a blob stand for their ids.
subtree_entry(file_map, name) ==
  [name |-> name, mode |-> "directory",
   object |-> build_tree_from_flat(
                [r \in {rest_of(p) : p \in {q \in DOMAIN file_map :
                                              slash_at(q) > 0 /\ first_of(q) = name}} |->
                   file_map[name \o <<"/">> \o r]])]
tree_entries(file_map, children, direct_files) ==
  [k \in 1..Len(children) |-> subtree_entry(file_map, children[k])]
  \o [k \in 1..Len(direct_files) |->
        [name |-> direct_files[k], mode |-> "regular", object |-> file_map[direct_files[k]]]]
build_tree_from_flat(file_map) ==
  entries_sorted(
    tree_entries(file_map,
                 names_in_order({first_of(p) : p \in {q \in DOMAIN file_map : slash_at(q) > 0}}),
                 names_in_order({p \in DOMAIN file_map : slash_at(p) = 0})))

\* A tree a repository can hold: no file lies where another path has a
\* directory.
is_tree(t) ==
  \A p, q \in DOMAIN t : ~(Len(p) < Len(q) /\ SubSeq(q, 1, Len(p) + 1) = p \o <<"/">>)
FlatTrees == {t \in UNION {[S -> {FileData}] : S \in SUBSET TreePaths} : is_tree(t)}

\* The tree of a merge whose sides added files without patches (files of no
\* known extension) to the tree of the ancestor.
BuildTree ==
  /\ mrg.pc = "trees"
  /\ \E built \in {build_merged_tree(DefaultRegistry, mrg.base, mrg.left, mrg.right, <<>>)} :
       mrg' = [mrg EXCEPT !.pc = "built", !.file_map = built.tree,
                          !.tree = build_tree_from_flat(built.tree)]
  /\ UNCHANGED <<srvVars, task, calls, netVars, pushLog, locObjects, locRefs, locReflog,
                 locHead, cli, cdc, subVars>>

InitTree ==
  /\ srvObjects = {}
  /\ srvRefs = [n \in RefNames |-> None]
  /\ srvReflog = [n \in RefNames |-> <<>>]
  /\ srvLock = UnlockedStore
  /\ task = [c \in Clients |-> IdleTask]
  /\ calls = 0
  /\ QuietNet
  /\ locObjects = {}
  /\ locRefs = [n \in RefNames |-> None]
  /\ locReflog = [n \in RefNames |-> <<>>]
  /\ locHead = ""
  /\ cli = NoCli
  /\ cdc = NoCodecCall
  /\ IdleSub
  /\ \E base \in FlatTrees, left \in FlatTrees, right \in FlatTrees :
       /\ DOMAIN base \subseteq DOMAIN left
       /\ DOMAIN base \subseteq DOMAIN right
       /\ mrg = [pc |-> "trees", cmd |-> "merge", base |-> base, left |-> left,
                 right |-> right, file_map |-> EmptyTree, tree |-> <<>>]

NextTree == BuildTree

SpecTree == InitTree /\ [][NextTree]_vars

RECURSIVE trees_of(_)
\* A tree and all the trees below it.
trees_of(tree) ==
  {tree} \cup UNION {trees_of(tree[k].object) :
                       k \in {j \in 1..Len(tree) : tree[j].mode = "directory"}}

\* C28: every tree the merge builds has its entries sorted by name, and no
\* two entries of the same name.
C28_TreeEntriesSortedUnique ==
  mrg.pc = "built" =>
    \A tree \in trees_of(mrg.tree) :
      \A i, j \in 1..Len(tree) : i < j => name_less(tree[i].name, tree[j].name)

\* --------------------------------------------- claims about the merge walks

\* The revisions that are ancestors of both, each of them included.
common_ancestors(store, left, right) ==
  ancestors_in(store, {left}) \cap ancestors_in(store, {right})

\* C29: find_lca returns a lowest common ancestor: a common ancestor of
\* left and right with no other common ancestor below it; and none only
\* when the two have no common ancestor.
C29_FindLcaIsLowest ==
  gr.pc = "find_lca" =>
    IF gr.lca = None THEN common_ancestors(gr.store, gr.a, gr.d) = {}
    ELSE /\ gr.lca \in common_ancestors(gr.store, gr.a, gr.d)
         /\ \A c \in common_ancestors(gr.store, gr.a, gr.d) \ {gr.lca} :
              gr.lca \notin ancestors_in(gr.store, {c})

\* The revisions whose patches a side has to give: the tip and its
\* ancestors, without the ancestor found and its ancestors.
side_revisions(store, ancestor, tip) ==
  ancestors_in(store, {tip}) \ ancestors_in(store, {ancestor})

\* A patch list holds the patches of exactly these revisions, each once,
\* those of a revision behind those of its parents.
CollectedFrom(patches, revisions) ==
  /\ Range(patches) = UNION {Range(GraphRevs[r].patches) : r \in revisions}
  /\ \A i, j \in 1..Len(patches) : i # j => patches[i] # patches[j]
  /\ \A i, j \in 1..Len(patches) :
       patches[i].rev \in Range(parents(patches[j].rev)) => i < j

\* C30: for each side the collected patches are those of the revisions that
\* are the tip or its ancestors but not the ancestor found nor its
\* ancestors, each revision once, parents first.
C30_CollectedPatches ==
  gr.pc = "collected" =>
    /\ CollectedFrom(gr.patches[1], side_revisions(gr.store, gr.lca, gr.a))
    /\ CollectedFrom(gr.patches[2], side_revisions(gr.store, gr.lca, gr.d))

\* ------------------------------------------------- claims about the server

\* The refs that point to an object the store does not hold.
Dangling(refs, store) == {n \in DOMAIN refs : refs[n] # None /\ refs[n] \notin store}

\* C31: when every ref of the server pointed to a stored object before an
\* update_refs request, every ref points to a stored object after it.
C31_RefsPointIntoStore ==
  (Done(1) /\ Dangling(task[1].pre, srvObjects) = {})
    => Dangling(srvRefs, srvObjects) = {}

\* The value a ref holds in pass 2 just before update i of the batch is
\* written: the value left by the updates written before it.
value_before(refs, updates, i) ==
  apply_updates(refs, SubSeq(updates, 1, i - 1))[updates[i].name]

\* C32: in an accepted batch, every write of an update that is not forced
\* replaces the value the ref holds at that write with a descendant of it,
\* also when an earlier update of the batch wrote the same ref.
C32_EveryChangeFastForward ==
  (Done(1) /\ task[1].resp.success) =>
    \A i \in 1..Len(task[1].req) :
      LET replaced == value_before(task[1].pre, task[1].req, i)
      IN (~task[1].req[i].force /\ task[1].req[i].new # None /\ replaced # None)
           => DagAncestor(replaced, task[1].req[i].new)

\* ------------------------------------- pull beside another local process

\* The fast-forward check of pull: the ref is read, and without force a
\* remote tip that does not descend from it ends the command.
CliPullCheck ==
  /\ cli.pc = "pull_update"
  /\ LET local == locRefs[cli.ref_name]
     IN cli' = IF /\ local # None
                  /\ ~is_ancestor(locObjects, local, cli.remote_id)
                  /\ ~cli.force
                 THEN [cli EXCEPT !.pc = "failed", !.local = local]
               ELSE [cli EXCEPT !.pc = "pull_old", !.local = local]
  /\ UNCHANGED <<srvVars, task, calls, netVars, pushLog,
                 locObjects, locRefs, locReflog, locHead, cdc, mrg, subVars>>

\* let old = store.get_ref(&ref_name)?
CliPullReadOld ==
  /\ cli.pc = "pull_old"
  /\ cli' = [cli EXCEPT !.pc = "pull_cas", !.old = locRefs[cli.ref_name]]
  /\ UNCHANGED <<srvVars, task, calls, netVars, pushLog,
                 locObjects, locRefs, locReflog, locHead, cdc, mrg, subVars>>

\* store.update_ref_cas(&ref_name, old.as_ref(), &remote_id, "sync", "pull")?
CliPullCas ==
  /\ cli.pc = "pull_cas"
  /\ \E r \in {update_ref_cas(locObjects, locRefs, locReflog, cli.ref_name,
                              cli.old, cli.remote_id)} :
       /\ cli' = [cli EXCEPT !.pc = IF r.ok THEN "finished" ELSE "failed"]
       /\ locRefs' = r.refs
       /\ locReflog' = r.reflog
  /\ UNCHANGED <<srvVars, task, calls, netVars, pushLog, locObjects, locHead,
                 cdc, mrg, subVars>>

\* Another process working on the same repository moves a ref to a revision
\* of the local store while the pull is between its fetch and its update.
OtherProcessMoves(name, target) ==
  /\ cli.cmd = "pull"
  /\ cli.pc \in {"pull_update", "pull_old", "pull_cas"}
  /\ target \in locObjects
  /\ locRefs[name] # target
  /\ locRefs' = write_ref(locRefs, name, target)
  /\ UNCHANGED <<srvVars, task, calls, netVars, pushLog, locObjects, locReflog,
                 locHead, cli, cdc, mrg, subVars>>

NextPull ==
  \/ \E ref_name \in RefNames, force \in BOOLEAN : CliPull(ref_name, force)
  \/ CliFetchCall
  \/ FetchLock(Cli)
  \/ FetchIter(Cli)
  \/ FetchFinish(Cli)
  \/ CliFetchMessage
  \/ CliPullCheck
  \/ CliPullReadOld
  \/ CliPullCas
  \/ \E name \in RefNames, target \in RevIds : OtherProcessMoves(name, target)

SpecPull == InitSync /\ [][NextPull]_vars

\* C33: the update of a pull without force moves the local ref only to a
\* descendant of the value the ref holds when the update is made, whatever
\* another process did to the ref since the fast-forward check.
C33_PullMovesToDescendant ==
  [][(cli.pc = "pull_cas" /\ cli'.pc = "finished" /\ ~cli.force)
       => /\ locRefs'[cli.ref_name] = cli.remote_id
          /\ (locRefs[cli.ref_name] # None
                => DagAncestor(locRefs[cli.ref_name], locRefs'[cli.ref_name]))]_vars

\* C33 witness: a pull without force has moved the ref although another
\* process changed it between the fast-forward check and the update.
C33_Witness ==
  /\ cli.cmd = "pull"
  /\ cli.pc = "finished"
  /\ ~cli.force
  /\ cli.local # cli.old
  /\ cli.old # cli.remote_id
  /\ locRefs[cli.ref_name] = cli.remote_id
  /\ locReflog[cli.ref_name] # <<>>

\* ------------------------------------------- a fetch stream that is cut short

\* What stream.message() gives the client when the stream is over without a
\* final marker: Ok(None) when the sender was dropped, Err(status) when the
\* transport broke.
EndOfStream == None - 1
StreamError == None - 2

\* The task spawned by fetch_objects does not get to its final marker: it is
\* dropped with its sender (the runtime shuts down, the task panics), or the
\* connection breaks under it.
StreamCut(c, how) ==
  /\ task[c].pc \in {"fo_wait", "fo_iter", "fo_end"}
  /\ rxOpen[c]
  /\ chan' = [chan EXCEPT ![c] = Append(@, how)]
  /\ srvLock' = [srvLock EXCEPT !.readers = @ \ {c}]
  /\ task' = [task EXCEPT ![c].pc = "done",
                          ![c].resp = [NoResp EXCEPT !.kind = "stream"]]
  /\ UNCHANGED <<srvObjects, srvRefs, srvReflog, calls, rxOpen, pushLog, locVars, subVars>>

\* One turn of `while let Some(chunk) = stream.message().await?`: an error
\* leaves fetch_objects through `?` and ends the command; the end of the
\* stream leaves the loop like the final marker does, and fetch_objects
\* returns Ok(fetched); any other chunk is decoded and stored.
CliStreamMessage ==
  /\ cli.pc \in {"pull_fetch", "clone_fetch"}
  /\ rxOpen[Cli]
  /\ cli.rx < Len(chan[Cli])
  /\ LET chunk == chan[Cli][cli.rx + 1]
     IN IF chunk = StreamError
          THEN /\ cli' = [cli EXCEPT !.rx = @ + 1, !.pc = "failed"]
               /\ UNCHANGED locObjects
        ELSE IF chunk = EndOfStream \/ is_last(chunk)
          THEN /\ cli' = [cli EXCEPT !.rx = @ + 1,
                                     !.pc = IF cli.cmd = "pull" THEN "pull_update"
                                            ELSE "clone_refs"]
               /\ UNCHANGED locObjects
        ELSE /\ cli' = [cli EXCEPT !.rx = @ + 1]
             /\ locObjects' = store_object(locObjects, chunk)
  /\ UNCHANGED <<srvVars, task, calls, netVars, pushLog, locRefs, locReflog, locHead, cdc, mrg, subVars>>

NextStream ==
  \/ \E ref_name \in RefNames, force \in BOOLEAN : CliPull(ref_name, force)
  \/ CliClone
  \/ CliFetchCall
  \/ FetchLock(Cli)
  \/ FetchIter(Cli)
  \/ FetchFinish(Cli)
  \/ \E how \in {EndOfStream, StreamError} : StreamCut(Cli, how)
  \/ CliStreamMessage
  \/ CliPullUpdate
  \/ CliCloneSetRefs

SpecStream == InitSync /\ [][NextStream]_vars

\* The client has read its fetch stream to an end that is not the marker.
ReadCutStream ==
  /\ cli.rx > 0
  /\ cli.rx = Len(chan[Cli])
  /\ chan[Cli][cli.rx] \in {EndOfStream, StreamError}

\* C34: a pull or clone whose fetch stream ended or broke before the final
\* marker ends with an error and leaves every local ref as it was.
C34_CutStreamFailsCommand ==
  (cli.cmd \in {"pull", "clone"} /\ cli.pc \in {"finished", "failed"} /\ ReadCutStream)
    => (cli.pc = "failed" /\ locRefs = cli.locRefs0)

\* ------------------------------------------- push over the HTTP transport

\* const MAX_RETRIES: usize = 3
MAX_RETRIES == 3

\* What the remote may answer to one round of batch uploads: it accepts some
\* of the objects sent, none of them before the objects it depends on.
Accepts(pending, stored) ==
  {acc \in SUBSET pending :
     \A id \in acc : (Range(dependencies(id)) \cap ObjIds) \subseteq (stored \cup acc)}

\* One round of the retry loop of push_objects_hybrid and push_objects_legacy:
\* the pending objects are sent, the accepted ids are collected, and the
\* objects not accepted stay pending.
HttpPushRound ==
  /\ cli.pc = "push_stream"
  /\ cli.round <= MAX_RETRIES
  /\ cli.push_ids \ cli.accepted_ids # {}
  /\ \E acc \in Accepts(cli.push_ids \ cli.accepted_ids, srvObjects) :
       /\ srvObjects' = srvObjects \cup acc
       /\ cli' = [cli EXCEPT !.round = @ + 1, !.accepted_ids = @ \cup acc]
  /\ UNCHANGED <<srvRefs, srvReflog, srvLock, task, calls, netVars, pushLog,
                 locObjects, locRefs, locReflog, locHead, cdc, mrg, subVars>>

\* The loop is left, with every object accepted or with the rounds used up,
\* and the response is success: true with the accepted ids; `run` prints its
\* message and goes on.
HttpPushReturn ==
  /\ cli.pc = "push_stream"
  /\ cli.round > MAX_RETRIES \/ cli.push_ids \subseteq cli.accepted_ids
  /\ cli' = [cli EXCEPT !.pc = "push_advertise",
                        !.pushed = cli.push_ids \subseteq cli.accepted_ids]
  /\ UNCHANGED <<srvVars, task, calls, netVars, pushLog,
                 locObjects, locRefs, locReflog, locHead, cdc, mrg, subVars>>

NextHttpPush ==
  \/ \E ref_name \in RefNames, force \in BOOLEAN : CliPush(ref_name, force)
  \/ HttpPushRound
  \/ HttpPushReturn
  \/ CliPushAdvertise
  \/ CliPushUpdateCall
  \/ UpdateRefsLock(Cli)
  \/ UpdateRefsVerify(Cli)
  \/ UpdateRefsApply(Cli)
  \/ CliPushUpdateResponse

SpecHttpPush == InitSync /\ [][NextHttpPush]_vars

\* C35: a push that ended while some object reachable from the local tip was
\* not accepted by the remote ended as failed, and no remote ref has moved.
C35_PushNeedsEveryObjectAccepted ==
  (cli.cmd = "push" /\ cli.pc \in {"finished", "failed"}
     /\ ~(cli.push_ids \subseteq cli.accepted_ids))
    => (cli.pc = "failed" /\ srvRefs = cli.srvRefs0)

\* --------------------------------------- a client that stops making progress

\* The client beside the one that holds a stream open.
Other == CHOOSE c \in Clients : c # Cli

\* A client sends an AdvertiseRefsRequest; the handler awaits the store.
AdvertiseRefsCall(c) ==
  /\ task[c].pc = "idle"
  /\ calls > 0
  /\ calls' = calls - 1
  /\ task' = [task EXCEPT ![c] = [IdleTask EXCEPT !.pc = "ar_wait"]]
  /\ UNCHANGED <<srvVars, netVars, pushLog, locVars, subVars>>

\* self.store.read().await, list_refs, and the response; the guard is dropped
\* when the handler returns.
AdvertiseRefs(c) ==
  /\ task[c].pc = "ar_wait"
  /\ read_free(srvLock)
  /\ task' = [task EXCEPT ![c].pc = "done", ![c].post = srvRefs,
                          ![c].resp = [NoResp EXCEPT !.success = TRUE, !.kind = "refs"]]
  /\ UNCHANGED <<srvVars, calls, netVars, pushLog, locVars, subVars>>

\* The fetch the streaming client asks for.
StallFetches == {[want |-> <<T1>>, have |-> <<>>, filter |-> NoFilter]}

\* The chunks the streaming client may send, and the updates the other
\* client may ask for.
StallChunks == [id : {R2}, obj : {R2}, frame_ok : BOOLEAN]
StallUpdates ==
  {<<u>> : u \in [name : {"heads/main"}, old : {None, R1}, new : {R2}, force : BOOLEAN]}

\* The next chunk of the push stream arrives, if the client sends one.
StallPushRecv ==
  /\ Len(task[Cli].accepted) < MaxChunks
  /\ PushRecv(Cli, StallChunks)

InitStall ==
  /\ srvObjects \in InitialStores
  /\ srvRefs \in [RefNames -> {None, R1}]
  /\ srvReflog = [n \in RefNames |-> <<>>]
  /\ srvLock = UnlockedStore
  /\ task = [c \in Clients |-> IdleTask]
  /\ calls = MaxConcCalls
  /\ QuietNet
  /\ NoLocal

\* One client opens a push or a fetch stream and sends or reads as it likes
\* (or not at all); the other one asks for the refs or updates them.
NextStall ==
  \/ PushCall(Cli)
  \/ PushLock(Cli)
  \/ StallPushRecv
  \/ PushFinish(Cli)
  \/ FetchCall(Cli, StallFetches)
  \/ FetchLock(Cli)
  \/ FetchIter(Cli)
  \/ FetchFinish(Cli)
  \/ RxDrop(Cli)
  \/ AdvertiseRefsCall(Other)
  \/ AdvertiseRefs(Other)
  \/ UpdateRefsCall(Other, StallUpdates)
  \/ UpdateRefsLock(Other)
  \/ UpdateRefsVerify(Other)
  \/ UpdateRefsApply(Other)
  \/ \E c \in Clients : Return(c)

SpecStall == InitStall /\ [][NextStall]_vars

\* The server's runtime schedules every handler and task that can take a
\* step: a lock that is free is granted, a handler that holds what it needs
\* runs on.  Nothing makes a client send the next chunk of its push stream or
\* its end marker, so the steps that wait for the client are not fair.
SpecStallLive ==
  /\ SpecStall
  /\ WF_vars(PushLock(Cli))
  /\ WF_vars(FetchLock(Cli))
  /\ WF_vars(FetchIter(Cli))
  /\ WF_vars(FetchFinish(Cli))
  /\ WF_vars(AdvertiseRefs(Other))
  /\ WF_vars(UpdateRefsLock(Other))
  /\ WF_vars(UpdateRefsVerify(Other))
  /\ WF_vars(UpdateRefsApply(Other))

\* C36: every advertise_refs or update_refs request of the other client is
\* eventually answered, whatever the client with the open stream does.
C36_OtherClientCompletes ==
  (task[Other].pc \in {"ar_wait", "ur_wait"}) ~> (task[Other].pc = "done")

\* ------------------------------------------------------------- workstreams

\* The requests the clients may send to one workstream.
MaxWsCalls == 3

Changes == {"x", "y"}
NoChange == ""

IdleHandler == [pc |-> "idle", op |-> "", change_id |-> NoChange, ws |-> <<>>,
                popped |-> NoChange, ok |-> FALSE, conc |-> FALSE]

wsOthers == <<srvObjects, srvRefs, srvReflog, task, calls, netVars, pushLog, locVars,
              gr, evt, cap>>

\* A client sends a PushChangeRequest or a PopChangeRequest for the
\* workstream; the handler awaits the store.
WsCall(c, op, change_id) ==
  /\ ws.pc = "open"
  /\ ws.h[c].pc = "idle"
  /\ ws.calls > 0
  /\ LET others == {d \in Clients \ {c} : ws.h[d].pc \in {"wait", "loaded"}}
     IN ws' = [ws EXCEPT !.calls = @ - 1,
                         !.overlap = @ \/ others # {},
                         !.h = [d \in Clients |->
                                  IF d = c THEN [IdleHandler EXCEPT !.pc = "wait", !.op = op,
                                                                    !.change_id = change_id]
                                  ELSE ws.h[d]]]
  /\ UNCHANGED <<srvLock, wsOthers>>

\* self.store.write().await; then get_ref of workstreams/<name> and
\* load_object: the handler's copy of the workstream.
WsLoad(c) ==
  /\ ws.pc = "open"
  /\ ws.h[c].pc = "wait"
  /\ write_free(srvLock)
  /\ srvLock' = [srvLock EXCEPT !.writer = c]
  /\ ws' = [ws EXCEPT !.h[c].pc = "loaded", !.h[c].ws = ws.stack]
  /\ UNCHANGED wsOthers

\* push_change from ws.change_stack.push on: the new workstream object is
\* stored, the ref set to it, the response returned and the guard dropped.
WsPushChange(c) ==
  /\ ws.pc = "open"
  /\ ws.h[c].pc = "loaded"
  /\ ws.h[c].op = "push"
  /\ ws' = [ws EXCEPT !.stack = Append(ws.h[c].ws, ws.h[c].change_id),
                      !.h[c].pc = "done", !.h[c].ok = TRUE,
                      !.done = Append(@, [op |-> "push", change_id |-> ws.h[c].change_id,
                                          ok |-> TRUE])]
  /\ srvLock' = [srvLock EXCEPT !.writer = IF @ = c THEN 0 ELSE @]
  /\ UNCHANGED wsOthers

\* pop_change from ws.change_stack.pop on: an empty stack is answered
\* failed_precondition and nothing is written; otherwise the new object is
\* stored, the ref set to it, and the popped change returned.
WsPopChange(c) ==
  /\ ws.pc = "open"
  /\ ws.h[c].pc = "loaded"
  /\ ws.h[c].op = "pop"
  /\ LET stack == ws.h[c].ws
     IN IF stack = <<>>
          THEN ws' = [ws EXCEPT !.h[c].pc = "done", !.h[c].ok = FALSE,
                                !.done = Append(@, [op |-> "pop", change_id |-> NoChange,
                                                    ok |-> FALSE])]
        ELSE ws' = [ws EXCEPT !.stack = SubSeq(stack, 1, Len(stack) - 1),
                              !.h[c].pc = "done", !.h[c].ok = TRUE,
                              !.h[c].popped = stack[Len(stack)],
                              !.done = Append(@, [op |-> "pop",
                                                  change_id |-> stack[Len(stack)],
                                                  ok |-> TRUE])]
  /\ srvLock' = [srvLock EXCEPT !.writer = IF @ = c THEN 0 ELSE @]
  /\ UNCHANGED wsOthers

\* The client has read the response.
WsReturn(c) ==
  /\ ws.pc = "open"
  /\ ws.h[c].pc = "done"
  /\ ws' = [ws EXCEPT !.h[c] = IdleHandler]
  /\ UNCHANGED <<srvLock, wsOthers>>

\* A workstream as `create` made it, or with one change pushed before.
InitWorkstream ==
  /\ srvObjects = {}
  /\ srvRefs = [n \in RefNames |-> None]
  /\ srvReflog = [n \in RefNames |-> <<>>]
  /\ srvLock = UnlockedStore
  /\ task = [c \in Clients |-> IdleTask]
  /\ calls = 0
  /\ QuietNet
  /\ locObjects = {}
  /\ locRefs = [n \in RefNames |-> None]
  /\ locReflog = [n \in RefNames |-> <<>>]
  /\ locHead = ""
  /\ cli = NoCli
  /\ cdc = NoCodecCall
  /\ mrg = NoMerge
  /\ gr = NoGraphCall
  /\ evt = NoSubscription
  /\ cap = NoCapsule
  /\ \E stack \in {<<>>, <<"z">>} :
       ws = [pc |-> "open", stack |-> stack, start |-> stack, done |-> <<>>,
             calls |-> MaxWsCalls, overlap |-> FALSE,
             h |-> [c \in Clients |-> IdleHandler]]

NextWorkstream ==
  \E c \in Clients :
    \/ \E change_id \in Changes : WsCall(c, "push", change_id)
    \/ WsCall(c, "pop", NoChange)
    \/ WsLoad(c)
    \/ WsPushChange(c)
    \/ WsPopChange(c)
    \/ WsReturn(c)

SpecWorkstream == InitWorkstream /\ [][NextWorkstream]_vars

RECURSIVE lifo(_, _, _)
\* The requests `ops` from the k-th on, run one after the other on a
\* last-in-first-out stack: the stack they leave, and whether every answer
\* recorded with them is the one the stack gives.
lifo(stack, ops, k) ==
  IF k > Len(ops) THEN [stack |-> stack, agrees |-> TRUE]
  ELSE IF ops[k].op = "push"
    THEN IF ops[k].ok THEN lifo(Append(stack, ops[k].change_id), ops, k + 1)
         ELSE [stack |-> stack, agrees |-> FALSE]
  ELSE IF stack = <<>>
    THEN IF ops[k].ok THEN [stack |-> stack, agrees |-> FALSE]
         ELSE lifo(stack, ops, k + 1)
  ELSE IF ops[k].ok /\ ops[k].change_id = stack[Len(stack)]
    THEN lifo(SubSeq(stack, 1, Len(stack) - 1), ops, k + 1)
  ELSE [stack |-> stack, agrees |-> FALSE]

\* C37: the answers given so far and the stack of the workstream are those of
\* the answered requests run one after the other, in the order in which they
\* were answered, on a last-in-first-out stack.
C37_StackIsSerial ==
  ws.pc = "open" =>
    \E r \in {lifo(ws.start, ws.done, 1)} : r.agrees /\ r.stack = ws.stack

\* C37 witness: two requests were in flight together, a push and a pop have
\* both been answered, and the pop returned a change.
C37_Witness ==
  /\ ws.pc = "open"
  /\ ws.overlap
  /\ \E i, j \in 1..Len(ws.done) :
       /\ ws.done[i].op = "push"
       /\ ws.done[j].op = "pop"
       /\ ws.done[j].ok

\* ------------------------------------------------- resolving a merge

\* claw checkout --force <branch>: HEAD becomes the branch when its ref
\* exists; a merge in progress is not looked at.
Checkout(target) ==
  /\ mrg.pc \in {"ready", "conflicted"}
  /\ locRefs[target] # None
  /\ locHead # target
  /\ locHead' = target
  /\ UNCHANGED <<srvVars, task, calls, netVars, pushLog, locObjects, locRefs, locReflog,
                 cli, cdc, mrg, subVars>>

\* The position of the entry of `path` in the conflicts of a merge state,
\* 0 without one.
position(conflicts, path) ==
  IF \E i \in 1..Len(conflicts) : conflicts[i].file_path = path
    THEN Min({i \in 1..Len(conflicts) : conflicts[i].file_path = path})
  ELSE 0

\* claw resolve mark <path>: without a merge in progress, without an entry
\* for the path, or with conflict markers left in the file, the command fails;
\* otherwise the entry is removed from MERGE_STATE.toml.
ResolveMark(path, has_markers) ==
  /\ mrg.pc = "conflicted"
  /\ mrg.ms.exists
  /\ LET idx == position(mrg.ms.conflicts, path)
     IN /\ idx # 0
        /\ ~has_markers
        /\ mrg' = [mrg EXCEPT !.ms.conflicts =
                     [i \in 1..(Len(@) - 1) |-> IF i < idx THEN @[i] ELSE @[i + 1]]]
  /\ UNCHANGED <<srvVars, task, calls, netVars, pushLog, locObjects, locRefs, locReflog,
                 locHead, cli, cdc, subVars>>

\* update_ref_cas(branch_ref, old_tip, rev_id) for the revision of a merge
\* completion, whose parents are the two revisions of the merge state: old_tip
\* was just read, so the comparison passes, and it has to be an ancestor of
\* the new revision, which it is when it is an ancestor of a parent.
completion_cas_ok(store, old_tip, left_rev, right_rev) ==
  \/ old_tip = None
  \/ is_ancestor(store, old_tip, left_rev)
  \/ is_ancestor(store, old_tip, right_rev)

\* claw snapshot while MERGE_STATE.toml exists: the branch is the one HEAD
\* names, the revision has the two revisions of the merge state as parents and
\* the scanned worktree as tree (here the tree of either side); it is stored,
\* the branch is moved to it by update_ref_cas from its tip, and the merge
\* state is removed.  When update_ref_cas fails the command ends with the
\* revision stored.
SnapshotMerge(side) ==
  /\ mrg.pc = "conflicted"
  /\ mrg.ms.exists
  /\ locHead # ""
  /\ LET branch_ref == locHead
         old_tip == locRefs[branch_ref]
         left_rev == mrg.ms.left_revision
         right_rev == mrg.ms.right_revision
         rev_id == RM
         new_tree == mrg.revs[IF side = "left" THEN left_rev ELSE right_rev].tree
     IN /\ locObjects' = locObjects \cup {rev_id}
        /\ IF completion_cas_ok(locObjects, old_tip, left_rev, right_rev)
             THEN /\ locRefs' = write_ref(locRefs, branch_ref, rev_id)
                  /\ locReflog' = [locReflog EXCEPT ![branch_ref] =
                                     Append(@, <<old_tip, rev_id>>)]
                  /\ mrg' = [mrg EXCEPT
                       !.pc = "completed",
                       !.revs = [id \in DOMAIN mrg.revs \cup {rev_id} |->
                                   IF id = rev_id THEN [patches |-> <<>>, tree |-> new_tree]
                                   ELSE mrg.revs[id]],
                       !.ms = NoMergeState,
                       !.completed = [branch_ref |-> branch_ref, old_tip |-> old_tip,
                                      parents |-> <<left_rev, right_rev>>,
                                      conflicts |-> mrg.ms.conflicts,
                                      left_ref |-> mrg.ms.left_ref, refs0 |-> locRefs]]
           ELSE UNCHANGED <<locRefs, locReflog, mrg>>
  /\ UNCHANGED <<srvVars, task, calls, netVars, pushLog, locHead, cli, cdc, subVars>>

NextResolve ==
  \/ \E branch_ref \in RefNames, new_tree \in WorkTrees : Snapshot(branch_ref, new_tree)
  \/ \E left_ref, right_ref \in RefNames : Integrate(left_ref, right_ref)
  \/ \E target \in RefNames : Checkout(target)
  \/ \E path \in PathSet, has_markers \in BOOLEAN : ResolveMark(path, has_markers)
  \/ \E side \in {"left", "right"} : SnapshotMerge(side)

SpecResolve == InitMerge /\ [][NextResolve]_vars

\* C38: a merge completed by snapshot had no conflict left in its merge
\* state; with a conflict still listed, snapshot creates no merge revision
\* and moves no ref.
C38_CompletionNeedsNoConflict ==
  mrg.pc = "completed" => mrg.completed.conflicts = <<>>

\* C39: the branch a merge completion advances is the left ref of the merge
\* state, and its previous tip is a parent of the new revision.
C39_CompletionOnLeftRef ==
  mrg.pc = "completed" =>
    /\ mrg.completed.branch_ref = mrg.completed.left_ref
    /\ mrg.completed.old_tip \in Range(mrg.completed.parents)

\* ------------------------------------------------- claims about deletions

\* The paths of the ancestor's tree that one side deleted while the other
\* side has them with the ancestor's content.
DeletedOnOneSide ==
  {p \in DOMAIN mrg.revs[MergedAncestor].tree :
     \E side, other \in {mrg.left, mrg.right} :
       /\ side # other
       /\ p \notin DOMAIN mrg.revs[side].tree
       /\ p \in DOMAIN mrg.revs[other].tree
       /\ mrg.revs[other].tree[p] = mrg.revs[MergedAncestor].tree[p]}

\* C40: the tree of a merge without conflicts has no file that one side
\* deleted and the other side left as it was in the common ancestor.
C40_DeletedFileAbsent ==
  (Merged /\ mrg.cmd \in {"integrate", "merge"} /\ mrg.registry = DefaultRegistry
     /\ mrg.result.ok /\ mrg.result.conflicts = <<>>) =>
    \A p \in DeletedOnOneSide : p \notin DOMAIN mrg.result.revision.tree

====
